---- MODULE Spec2Model ----
(***************************************************************************)
(* Model of the GitHub project manager MCP server: the error classifier    *)
(* and retry executor of the repository adapters, the outbound call sites  *)
(* of the repositories, and the tool validation / dispatch pipeline.       *)
(*                                                                         *)
(* Two specifications share the variables:                                 *)
(*   SpecRetry  the error classifier, with_retry and the outbound calls    *)
(*   SpecTool   ToolValidator.validate, execute_tool and call_tool         *)
(***************************************************************************)
EXTENDS Integers, Sequences, FiniteSets, TLC

\* ------------------------------------------------------ program constants
\* BaseGitHubRepository._retry_attempts
RetryAttempts == 3
\* base of the exponential backoff, in milliseconds
BackoffBaseMs == 1000

\* ----------------------------------------------------------------- values
\* HTTP statuses a failed call can carry
Statuses == {401, 403, 404, 422, 429, 500, 502, 503, 504}
\* value of a status attribute that is present and None
StatusNone == 0
\* header values are strings; "absent" stands for a missing header
RemainingValues == {"absent", "0", "5"}
ResetValues == {"absent", "1700000000"}

\* mutant of HeaderInt: every header value reads as 0
HeaderInt_always_zero(s) == 0

\* int(headers.get('x-ratelimit-remaining', 0))
HeaderInt(s) ==
  CASE s = "0" -> 0
    [] s = "5" -> 5
    [] s = "1700000000" -> 1700000000
    [] OTHER -> 0

\* str.lower() on the words of the vocabulary
Lower(w) ==
  CASE w = "Timeout" -> "timeout"
    [] w = "Connection" -> "connection"
    [] w = "Network" -> "network"
    [] w = "ECONNRESET" -> "econnreset"
    [] w = "Not" -> "not"
    [] w = "Found" -> "found"
    [] w = "Server" -> "server"
    [] w = "Error" -> "error"
    [] w = "Request" -> "request"
    [] OTHER -> w

\* error messages (str(error)) as word sequences
MsgTimeout == <<"Request", "Timeout">>
MsgConnReset == <<"Connection", "reset", "by", "peer">>
MsgEconnreset == <<"read", "ECONNRESET">>
MsgNetwork == <<"Network", "is", "unreachable">>
MsgNotFound == <<"Not", "Found">>
MsgServer == <<"Server", "Error">>
NetworkMessages == {MsgTimeout, MsgConnReset, MsgEconnreset, MsgNetwork}
PlainMessages == {MsgNotFound, MsgServer}
Messages == NetworkMessages \cup PlainMessages

\* the response attribute of an error object
\*   attr "noattr": the object has no response attribute
\*   attr "none":   the attribute is None
\*   attr "obj":    a response object; headers tells whether it has headers
NoResponse == [attr |-> "noattr", headers |-> FALSE, remaining |-> "absent", reset |-> "absent"]
NoneResponse == [attr |-> "none", headers |-> FALSE, remaining |-> "absent", reset |-> "absent"]
BareResponse == [attr |-> "obj", headers |-> FALSE, remaining |-> "absent", reset |-> "absent"]
HeaderResponses ==
  {[attr |-> "obj", headers |-> TRUE, remaining |-> r, reset |-> s] :
     r \in RemainingValues, s \in ResetValues}
Responses == {NoResponse, NoneResponse, BareResponse} \cup HeaderResponses

\* an exception object as the classifier sees it
MkError(cls, hasStatus, status, resp, resetTime, msg) ==
  [cls |-> cls, hasStatus |-> hasStatus, status |-> status, resp |-> resp,
   reset_time |-> resetTime, msg |-> msg]

\* errors raised by a transport or an operation
RaisedErrors ==
  {MkError("Exception", TRUE, s, r, "absent", m) :
     s \in Statuses \cup {StatusNone}, r \in Responses, m \in Messages}
  \cup
  {MkError("Exception", FALSE, StatusNone, r, "absent", m) :
     r \in Responses, m \in Messages}

\* ------------------------------------------------------- error classifier
\* does a word of the message contain the keyword (err in error_str)
HasWord(msg, kw) == \E i \in 1..Len(msg) : Lower(msg[i]) = kw

\* network_errors of is_retryable_error
network_errors == {"timeout", "connection", "network", "econnreset"}
\* statuses is_retryable_error retries
retryable_statuses == {429, 500, 502, 503, 504}

\* hasattr(error, 'response') and hasattr(error.response, 'headers')
HasHeaders(error) == error.resp.attr = "obj" /\ error.resp.headers

\* f" ({context})" appended to a message
WithContext(msg, context) == msg \o context

\* GitHubErrorHandler.handle_error
handle_error(error, context) ==
  IF error.hasStatus
  THEN CASE error.status = 401 ->
              MkError("UnauthorizedError", FALSE, StatusNone, NoResponse, "absent",
                      WithContext(<<"Unauthorized", "access", "to", "GitHub", "API">>, context))
         [] error.status = 403 ->
              IF HasHeaders(error) /\ error.resp.remaining # "absent"
                 /\ HeaderInt(error.resp.remaining) = 0
              THEN MkError("RateLimitError", FALSE, StatusNone, NoResponse, error.resp.reset,
                           WithContext(<<"GitHub", "API", "rate", "limit", "exceeded">>, context))
              ELSE MkError("UnauthorizedError", FALSE, StatusNone, NoResponse, "absent",
                           WithContext(<<"Forbidden", "access", "to", "GitHub", "API">>, context))
         [] error.status = 404 ->
              MkError("ResourceNotFoundError", FALSE, StatusNone, NoResponse, "absent",
                      WithContext(<<"Resource", "not", "found", "on", "GitHub">>, context))
         [] error.status = 429 ->
              MkError("RateLimitError", FALSE, StatusNone, NoResponse,
                      IF HasHeaders(error) THEN error.resp.reset ELSE "absent",
                      WithContext(<<"GitHub", "API", "rate", "limit", "exceeded">>, context))
         [] OTHER ->
              MkError("GitHubAPIError", TRUE, error.status,
                      IF error.resp.attr = "noattr" THEN NoneResponse ELSE error.resp,
                      "absent",
                      WithContext(<<"GitHub", "API", "error", "(status)">> \o error.msg, context))
  ELSE MkError("GitHubAPIError", TRUE, StatusNone, NoneResponse, "absent",
               WithContext(<<"GitHub", "API", "error:">> \o error.msg, context))

\* mutant of is_retryable_error: only the rate-limit status is retried
is_retryable_error_429_only(error) ==
  IF error.hasStatus
  THEN error.status = 429
  ELSE \E kw \in network_errors : HasWord(error.msg, kw)

\* GitHubErrorHandler.is_retryable_error
is_retryable_error(error) ==
  IF error.hasStatus
  THEN error.status \in retryable_statuses
  ELSE \E kw \in network_errors : HasWord(error.msg, kw)

\* ------------------------------------------------------ outbound call sites
\* repository methods whose SDK call is passed to with_retry
RetrySites ==
  {[repo |-> "issue", method |-> m[1], wrap |-> "with_retry", context |-> <<m[2]>>] :
     m \in {<<"create", "(creating issue)">>, <<"search", "(searching issues)">>,
            <<"create_comment", "(creating comment)">>,
            <<"list_comments", "(listing comments)">>,
            <<"update_comment", "(updating comment)">>,
            <<"delete_comment", "(deleting comment)">>}}

\* repository methods that call BaseGitHubRepository.graphql
GraphqlSites ==
  {[repo |-> "project", method |-> m, wrap |-> "graphql",
    context |-> <<"(executing GraphQL query)">>] :
     m \in {"create", "update", "delete", "find_by_id", "find_by_owner", "create_field",
            "update_field", "delete_field", "create_view", "update_view", "delete_view",
            "get_project_item_id_for_issue", "get_field_by_name", "set_field_value",
            "get_field_by_id"}}
  \cup
  {[repo |-> "sprint", method |-> m, wrap |-> "graphql",
    context |-> <<"(executing GraphQL query)">>] :
     m \in {"_get_or_create_iteration_field", "create", "_assign_issues_to_iteration",
            "find_all", "get_issues"}}

\* repository methods that call the REST SDK with no retry wrapper
DirectSites ==
  {[repo |-> "milestone", method |-> m, wrap |-> "direct", context |-> <<>>] :
     m \in {"create", "update", "delete", "find_by_id", "find_all"}}
  \cup
  {[repo |-> "issue", method |-> m, wrap |-> "direct", context |-> <<>>] :
     m \in {"update", "delete", "find_by_id", "find_by_milestone", "find_all"}}

CallSites == RetrySites \cup GraphqlSites \cup DirectSites
NoSite == [repo |-> "none", method |-> "none", wrap |-> "none", context |-> <<>>]

\* ------------------------------------------------------ transport outcomes
NoError == MkError("none", FALSE, StatusNone, NoResponse, "absent", <<>>)
RateLimitHeaders ==
  [attr |-> "obj", headers |-> TRUE, remaining |-> "0", reset |-> "1700000000"]

\* what one invocation of an operation did: ok, or the HTTP status of the
\* failed request (0: no HTTP response), whether the failure was a network
\* failure, and the exception the operation raised
Outcome(ok, http, network, err) == [ok |-> ok, http |-> http, network |-> network, err |-> err]
OkOutcome == Outcome(TRUE, 0, FALSE, NoError)

\* exceptions an operation passed to with_retry raises: an SDK exception with
\* a status, or an exception without one (network failure, or anything else)
SdkFailures ==
  {Outcome(FALSE, s, FALSE, MkError("Exception", TRUE, s, r, "absent", MsgServer)) :
     s \in Statuses, r \in {NoResponse, RateLimitHeaders}}
  \cup
  {Outcome(FALSE, 0, TRUE, MkError("Exception", FALSE, StatusNone, NoResponse, "absent", m)) :
     m \in {MsgTimeout, MsgConnReset}}
  \cup
  {Outcome(FALSE, 0, FALSE, MkError("Exception", FALSE, StatusNone, NoResponse, "absent", MsgNotFound))}

\* the exceptions the HTTP client of GraphQLClient.execute raises: a status
\* error (no status attribute, the response attached) or a transport error
HttpxStatusError(s, r) == MkError("HTTPStatusError", FALSE, StatusNone, r, "absent", MsgServer)
HttpxTransportError(m) == MkError("TransportError", FALSE, StatusNone, NoResponse, "absent", m)

\* GraphQLClient.execute: every exception of the request is re-raised as
\* handle_error(e, "GraphQL operation")
GraphQLExecuteRaise(e) == handle_error(e, <<"(GraphQL operation)">>)

GraphqlFailures ==
  {Outcome(FALSE, s, FALSE, GraphQLExecuteRaise(HttpxStatusError(s, r))) :
     s \in Statuses, r \in {BareResponse, RateLimitHeaders}}
  \cup
  {Outcome(FALSE, 0, TRUE, GraphQLExecuteRaise(HttpxTransportError(m))) :
     m \in {MsgTimeout, MsgConnReset}}

FailuresAt(s) == IF s.wrap = "graphql" THEN GraphqlFailures ELSE SdkFailures

\* ------------------------------------------------------------ tool tables
\* the tools ToolRegistry._register_built_in_tools registers
RegistryNames ==
  {"create_project", "list_projects", "get_project", "update_project",
   "delete_project", "create_milestone", "list_milestones",
   "update_milestone", "delete_milestone", "create_issue",
   "list_issues", "get_issue", "update_issue", "add_issue_comment",
   "list_issue_comments", "update_issue_comment",
   "delete_issue_comment", "search_issues", "filter_project_items",
   "find_issues_by_field", "create_sprint", "list_sprints",
   "get_current_sprint", "update_sprint", "add_issues_to_sprint",
   "remove_issues_from_sprint", "create_roadmap", "plan_sprint",
   "get_milestone_metrics", "get_sprint_metrics",
   "get_overdue_milestones", "get_upcoming_milestones",
   "create_project_field", "list_project_fields",
   "update_project_field", "create_project_view", "list_project_views",
   "update_project_view", "delete_project_view", "add_project_item",
   "remove_project_item", "list_project_items", "set_field_value",
   "get_field_value", "clear_field_value", "create_label",
   "list_labels"}

NonEmptyFields(t) ==
  CASE t \in {"create_project"} ->
         {"title", "owner"}
    [] t \in {"get_project", "update_project", "delete_project",
               "filter_project_items", "list_project_fields", "list_project_views",
               "list_project_items"} ->
         {"project_id"}
    [] t \in {"create_milestone", "create_issue", "create_sprint"} ->
         {"title", "description"}
    [] t \in {"update_milestone", "delete_milestone", "get_milestone_metrics"} ->
         {"milestone_id"}
    [] t \in {"get_issue", "update_issue", "list_issue_comments"} ->
         {"issue_id"}
    [] t \in {"add_issue_comment"} ->
         {"issue_id", "body"}
    [] t \in {"update_issue_comment"} ->
         {"issue_id", "comment_id", "body"}
    [] t \in {"delete_issue_comment"} ->
         {"issue_id", "comment_id"}
    [] t \in {"search_issues"} ->
         {"query"}
    [] t \in {"find_issues_by_field"} ->
         {"project_id", "field_name"}
    [] t \in {"update_sprint", "get_sprint_metrics"} ->
         {"sprint_id"}
    [] t \in {"add_issues_to_sprint", "remove_issues_from_sprint"} ->
         {"sprint_id", "issue_ids"}
    [] t \in {"get_overdue_milestones"} ->
         {"limit"}
    [] t \in {"get_upcoming_milestones"} ->
         {"days_ahead", "limit"}
    [] t \in {"create_project_field", "create_project_view"} ->
         {"project_id", "name"}
    [] t \in {"update_project_field"} ->
         {"project_id", "field_id"}
    [] t \in {"update_project_view", "delete_project_view"} ->
         {"project_id", "view_id"}
    [] t \in {"add_project_item"} ->
         {"project_id", "content_id"}
    [] t \in {"remove_project_item"} ->
         {"project_id", "item_id"}
    [] t \in {"set_field_value", "get_field_value", "clear_field_value"} ->
         {"project_id", "item_id", "field_id"}
    [] t \in {"create_label"} ->
         {"name"}
    [] OTHER -> {}

PresentFields(t) ==
  CASE t \in {"filter_project_items"} ->
         {"field_filters"}
    [] t \in {"find_issues_by_field"} ->
         {"field_value"}
    [] t \in {"create_sprint"} ->
         {"start_date", "end_date"}
    [] t \in {"create_roadmap"} ->
         {"project", "milestones"}
    [] t \in {"plan_sprint"} ->
         {"sprint"}
    [] t \in {"create_project_field"} ->
         {"type"}
    [] t \in {"create_project_view"} ->
         {"layout"}
    [] t \in {"add_project_item"} ->
         {"content_type"}
    [] t \in {"set_field_value"} ->
         {"value"}
    [] t \in {"create_label"} ->
         {"color"}
    [] OTHER -> {}

\* the keys of TOOL_HANDLERS
HandlerNames ==
  {"create_project", "list_projects", "get_project", "update_project",
   "delete_project", "create_issue", "get_issue", "list_issues",
   "update_issue", "add_issue_comment", "list_issue_comments",
   "update_issue_comment", "delete_issue_comment", "search_issues",
   "filter_project_items", "find_issues_by_field", "create_milestone",
   "list_milestones", "get_milestone_metrics", "get_overdue_milestones",
   "get_upcoming_milestones", "update_milestone", "delete_milestone",
   "create_roadmap", "create_sprint", "plan_sprint", "get_sprint_metrics",
   "list_sprints", "add_issues_to_sprint", "set_field_value",
   "add_project_item", "create_project_field", "create_label",
   "list_labels", "list_project_fields", "create_project_view"}

\* tool names a client may send that nothing registers
UnknownNames == {"frobnicate"}
ToolNames == RegistryNames \cup HandlerNames \cup UnknownNames

\* handlers whose body is inside try/except Exception and answers with an
\* INTERNAL_ERROR envelope
GuardedHandlers ==
  {"create_issue", "create_milestone", "get_milestone_metrics", "add_project_item",
   "create_project_field", "create_label", "list_labels", "list_project_fields",
   "create_project_view"}
\* handlers that catch the failure of each item and report it in a success
\* envelope
CollectingHandlers == {"add_issues_to_sprint"}

\* MCPErrorCode
INTERNAL_ERROR == "MCP-001"
VALIDATION_ERROR == "MCP-002"
RESOURCE_NOT_FOUND == "MCP-003"

\* -------------------------------------------------------------- arguments
\* values of an argument: the empty string (or another value the field's
\* constraint rejects) and a value the constraint accepts
ArgValues == {"", "v"}
RequiredFields(t) == NonEmptyFields(t) \cup PresentFields(t)
\* the argument mappings a client may send for tool t
ArgMaps(t) == UNION {[S -> ArgValues] : S \in SUBSET RequiredFields(t)}

\* the shapes in which the arguments reach the validator
Forms == {"mapping", "json", "pyliteral", "typed", "other"}
RawArgs(form, m) == [form |-> form, map |-> m]

\* json.loads on the text of a mapping: a Python literal quotes its keys
\* with single quotes, so only the text of the empty mapping is also JSON
json_loads_ok(raw) ==
  \/ raw.form = "json"
  \/ raw.form = "pyliteral" /\ DOMAIN raw.map = {}

\* validate, lines 39-57: string arguments are parsed as JSON, objects are
\* converted with model_dump / __dict__, anything else is rejected
Normalize(tool_name, raw) ==
  IF raw.form \in {"json", "pyliteral"}
  THEN IF json_loads_ok(raw)
       THEN [ok |-> TRUE, map |-> raw.map, msg |-> <<>>]
       ELSE [ok |-> FALSE, map |-> <<>>, msg |-> <<"Invalid JSON string for tool", tool_name>>]
  ELSE IF raw.form \in {"mapping", "typed"}
       THEN [ok |-> TRUE, map |-> raw.map, msg |-> <<>>]
       ELSE [ok |-> FALSE, map |-> <<>>, msg |-> <<"Invalid arguments type for tool", tool_name>>]

\* schema.model_validate(args) succeeds
SchemaAccepts(t, m) ==
  /\ \A f \in NonEmptyFields(t) : f \in DOMAIN m /\ m[f] # ""
  /\ \A f \in PresentFields(t) : f \in DOMAIN m

\* the result of validate: the typed arguments, or the ValueError raised
ValOk(t, m) == [status |-> "ok", tool |-> t, fields |-> m, msg |-> <<>>]
ValRaised(msg) == [status |-> "raised", tool |-> "", fields |-> <<>>, msg |-> msg]
NoVal == [status |-> "none", tool |-> "", fields |-> <<>>, msg |-> <<>>]

\* ToolValidator.validate
validate(tool_name, raw) ==
  LET n == Normalize(tool_name, raw) IN
  IF ~n.ok
  THEN ValRaised(<<"Invalid parameters for tool", tool_name>> \o n.msg)
  ELSE IF SchemaAccepts(tool_name, n.map)
       THEN ValOk(tool_name, n.map)
       ELSE ValRaised(<<"Invalid parameters for tool", tool_name,
                        "Failed to validate", tool_name, "arguments">>)

\* ---------------------------------------------------------------- dispatch
\* what the service does when a handler calls it: it returns, or raises
SvcOutcomes == {"ok", "ValueError", "ResourceNotFoundError", "GitHubAPIError"}

\* a response: a success or error envelope, the content call_tool returns,
\* or an exception that leaves the call
Response(kind, code, exc, msg) == [kind |-> kind, code |-> code, exc |-> exc, msg |-> msg]
NoResp == Response("none", "", "", <<>>)

\* a handler of TOOL_HANDLERS runs with the service outcome svc
run_handler(t, svc) ==
  IF svc = "ok" \/ t \in CollectingHandlers
  THEN Response("success", "", "", <<t>>)
  ELSE IF t \in GuardedHandlers
       THEN Response("error", INTERNAL_ERROR, "", <<"Error", t, svc>>)
       ELSE Response("raised", "", svc, <<svc>>)

\* execute_tool
execute_tool(t, svc) ==
  IF t \notin HandlerNames
  THEN [response |-> Response("error", RESOURCE_NOT_FOUND, "", <<"Tool", t, "not found">>),
        handler |-> "none", calls |-> 0]
  ELSE [response |-> run_handler(t, svc), handler |-> t, calls |-> 1]

\* mutant of ValidationGate: the validation failure is swallowed
ValidationGate_swallow(val) == TRUE

\* call_tool, lines 99-103: a validation failure is raised as ValueError and
\* the handler is not reached
ValidationGate(val) == val.status = "ok"

\* call_tool
call_tool(name, raw, svc) ==
  IF name \notin RegistryNames
  THEN [response |-> Response("raised", "", "ValueError", <<"Unknown tool:", name>>),
        val |-> NoVal, handler |-> "none", calls |-> 0]
  ELSE LET val == validate(name, raw) IN
       IF ~ValidationGate(val)
       THEN [response |-> Response("raised", "", "ValueError",
                                   <<"Invalid arguments for tool", name>> \o val.msg),
             val |-> val, handler |-> "none", calls |-> 0]
       ELSE LET r == execute_tool(name, svc) IN
            [response |->
               IF r.response.kind = "success" THEN Response("content", "", "", r.response.msg)
               ELSE IF r.response.kind = "raised" THEN r.response
               ELSE Response("raised", "", "ValueError",
                             <<"Tool execution failed:">> \o r.response.msg),
             val |-> val, handler |-> r.handler, calls |-> r.calls]

\* ------------------------------------------------------------------ state
VARIABLES
  rpc,          \* position of the outbound call: idle, calling, sleeping,
                \* returned, raised, classified
  site,         \* the call site of the running outbound call
  attempt,      \* loop variable of with_retry
  invocations,  \* number of times the operation has been invoked
  sleeps,       \* the backoff sleeps taken: <<[after, ms]>>
  history,      \* the outcomes of the invocations so far
  raised,       \* the exception that left the call (NoError if none)
  clsIn,        \* argument of the last direct classifier call
  clsOut,       \* handle_error(clsIn)
  clsRetry,     \* is_retryable_error(clsIn)
  tpc,          \* position of the tool pipeline: idle, validated, executed, called
  req,          \* the request in hand: [tool, map]
  valLog,       \* the result of validate for each form the request was sent in
  svcOutcome,   \* what the service did in the last dispatch
  valOut,       \* the result of validate inside call_tool
  handlerRan,   \* the handler the last dispatch invoked ("none" if none)
  handlerArgs,  \* the arguments that handler received
  serviceCalls, \* calls the handler made to the service (and through it to GitHub)
  response,     \* the response of the last dispatch
  opc,          \* position of the options coercion: idle, coerced
  optIn,        \* the "options" argument handed to validate
  optOut,       \* args["options"] after the coercion step
  optRaised,    \* whether the coercion step raised
  gpc,          \* position of the GraphQL component: idle, executed, found
  gqlReply,     \* the HTTP reply GraphQLClient.execute received
  gqlOut,       \* what execute did with it: data returned or error raised
  fboUser,      \* find_by_owner: the reply to the user query
  fboOrg,       \* find_by_owner: the reply to the organization query
  fboOut,       \* find_by_owner: the projects returned or the error raised
  ghIssues,     \* the issues of the repository on GitHub, by number
  ipc,          \* position of the issue component: idle, created, found, updated
  issReq,       \* the operation in hand and its inputs
  issOut,       \* its result: the Issue returned, None, or the error raised
  ghBefore,     \* the issues on GitHub when the operation started
  issCreated,   \* what the create call was given and what it returned
  updates,      \* number of update_issue calls made so far
  ghMilestones, \* the milestones of the repository on GitHub
  mpc,          \* position of the milestone component: idle, created, deleted
  msReq,        \* the last milestone request
  msOut,        \* what create returned or raised
  msLog,        \* the delete_milestone calls made so far: <<[id, net, response]>>
  ghIterations, \* the iterations of the project's iteration field on GitHub
  spc,          \* position of the sprint component: idle, created
  sprReq,       \* the last sprint request
  sprOut,       \* what create returned or raised, and the payload it sent
  ghIterBefore, \* the iterations on GitHub before the last request
  sprints,      \* number of sprint creations made so far
  racePc,       \* concurrent creates: position of each create: idle, read, done, failed
  raceReq,      \* concurrent creates: the request of each create
  raceRead,     \* concurrent creates: the iteration list each create read
  raceOut,      \* concurrent creates: what each create returned or raised
  ghItems,      \* issue assignment: the iteration each issue's project item holds on GitHub
  asgReq,       \* issue assignment: the request
  asgOut,       \* issue assignment: what the call returned or raised
  asgBefore,    \* issue assignment: the field's iterations before the call
  assigns,      \* issue assignment: calls made so far
  delayIn,      \* retry delay: the headers passed and the clock
  delayOut,     \* retry delay: the value returned, or the error raised
  ghMs,         \* milestone update: title and state of each milestone on GitHub
  muReq,        \* milestone update: the request
  muOut,        \* milestone update: what the tool returned or raised
  ghMsBefore,   \* milestone update: the milestones before the call
  msUpdates     \* milestone update: calls made so far

retryVars == <<rpc, site, attempt, invocations, sleeps, history, raised,
               clsIn, clsOut, clsRetry>>

toolVars == <<tpc, req, valLog, svcOutcome, valOut, handlerRan, handlerArgs,
              serviceCalls, response>>

coerceVars == <<opc, optIn, optOut, optRaised>>

\* the variables of the components added after the retry machine and the
\* tool pipeline
gqlVars == <<gpc, gqlReply, gqlOut, fboUser, fboOrg, fboOut>>

issueVars == <<ghIssues, ipc, issReq, issOut, ghBefore, issCreated, updates>>

milestoneVars == <<ghMilestones, mpc, msReq, msOut, msLog>>

sprintVars == <<ghIterations, spc, sprReq, sprOut, ghIterBefore, sprints>>

raceVars == <<racePc, raceReq, raceRead, raceOut>>

assignVars == <<ghItems, asgReq, asgOut, asgBefore, assigns>>

delayVars == <<delayIn, delayOut>>

msUpdateVars == <<ghMs, muReq, muOut, ghMsBefore, msUpdates>>

extVars == <<coerceVars, gqlVars, issueVars, milestoneVars, sprintVars,
            raceVars,
            assignVars,
            delayVars,
            msUpdateVars>>

vars == <<retryVars, toolVars, extVars>>

NoReq == [tool |-> "", map |-> <<>>]

ToolInit ==
  /\ tpc = "idle"
  /\ req = NoReq
  /\ valLog = [f \in Forms |-> NoVal]
  /\ svcOutcome = "none"
  /\ valOut = NoVal
  /\ handlerRan = "none"
  /\ handlerArgs = NoVal
  /\ serviceCalls = 0
  /\ response = NoResp

RetryInit ==
  /\ rpc = "idle"
  /\ site = NoSite
  /\ attempt = 0
  /\ invocations = 0
  /\ sleeps = <<>>
  /\ history = <<>>
  /\ raised = NoError
  /\ clsIn = NoError
  /\ clsOut = NoError
  /\ clsRetry = FALSE

\* 2 ** n
RECURSIVE Pow2(_)
Pow2(n) == IF n = 0 THEN 1 ELSE 2 * Pow2(n - 1)

\* mutant of BackoffDelay: a fixed delay
BackoffDelay_fixed(k) == BackoffBaseMs

\* delay = 1000 * (2 ** attempt)
BackoffDelay(k) == BackoffBaseMs * Pow2(k)

\* mutant of IsLastAttempt: off by one
IsLastAttempt_off_by_one(k) == k = RetryAttempts

\* is_last_attempt = attempt == self._retry_attempts - 1
IsLastAttempt(k) == k = RetryAttempts - 1

\* the context passed to handle_error by with_retry
RetryContext(context, last) ==
  IF last THEN context \o <<"(max retries exceeded)">> ELSE context

\* with_retry is entered: a repository method passes its operation, or
\* graphql() passes GraphQLClient.execute
WithRetryStart(s) ==
  /\ rpc = "idle"
  /\ s \in RetrySites \cup GraphqlSites
  /\ rpc' = "calling"
  /\ site' = s
  /\ attempt' = 0
  /\ UNCHANGED <<invocations, sleeps, history, raised, clsIn, clsOut, clsRetry>>
  /\ UNCHANGED <<toolVars, extVars>>

\* with_retry: the operation returns, and with_retry returns its result
OperationReturns ==
  /\ rpc = "calling"
  /\ attempt < RetryAttempts
  /\ invocations' = invocations + 1
  /\ history' = Append(history, OkOutcome)
  /\ rpc' = "returned"
  /\ UNCHANGED <<site, attempt, sleeps, raised, clsIn, clsOut, clsRetry>>
  /\ UNCHANGED <<toolVars, extVars>>

\* with_retry: the operation raises; the except block either raises the
\* classified error or goes on to the backoff sleep
OperationRaises(o) ==
  /\ rpc = "calling"
  /\ attempt < RetryAttempts
  /\ o \in FailuresAt(site)
  /\ invocations' = invocations + 1
  /\ history' = Append(history, o)
  /\ IF ~is_retryable_error(o.err) \/ IsLastAttempt(attempt)
     THEN /\ rpc' = "raised"
          /\ raised' = handle_error(o.err, RetryContext(site.context, IsLastAttempt(attempt)))
     ELSE /\ rpc' = "sleeping"
          /\ raised' = raised
  /\ UNCHANGED <<site, attempt, sleeps, clsIn, clsOut, clsRetry>>
  /\ UNCHANGED <<toolVars, extVars>>

\* with_retry: await asyncio.sleep(delay / 1000), then the next iteration;
\* when the loop is exhausted the last error is raised after it
BackoffSleep ==
  /\ rpc = "sleeping"
  /\ sleeps' = Append(sleeps, [after |-> attempt, ms |-> BackoffDelay(attempt)])
  /\ attempt' = attempt + 1
  /\ IF attempt + 1 < RetryAttempts
     THEN rpc' = "calling" /\ raised' = raised
     ELSE /\ rpc' = "raised"
          /\ raised' = handle_error(history[Len(history)].err, site.context)
  /\ UNCHANGED <<site, invocations, history, clsIn, clsOut, clsRetry>>
  /\ UNCHANGED <<toolVars, extVars>>

\* a repository method calls the REST SDK with no wrapper: one request, and
\* its exception leaves the call as it is
OutboundDirect(s, o) ==
  /\ rpc = "idle"
  /\ s \in DirectSites
  /\ o \in SdkFailures \cup {OkOutcome}
  /\ site' = s
  /\ invocations' = 1
  /\ history' = <<o>>
  /\ rpc' = IF o.ok THEN "returned" ELSE "raised"
  /\ raised' = o.err
  /\ UNCHANGED <<attempt, sleeps, clsIn, clsOut, clsRetry>>
  /\ UNCHANGED <<toolVars, extVars>>

\* the classifier is called on an error: handle_error and is_retryable_error
Classify(e) ==
  /\ rpc = "idle"
  /\ e \in RaisedErrors
  /\ clsIn' = e
  /\ clsOut' = handle_error(e, <<>>)
  /\ clsRetry' = is_retryable_error(e)
  /\ rpc' = "classified"
  /\ UNCHANGED <<site, attempt, invocations, sleeps, history, raised>>
  /\ UNCHANGED <<toolVars, extVars>>

RetryNext ==
  \/ rpc = "idle" /\ \E s \in RetrySites \cup GraphqlSites : WithRetryStart(s)
  \/ OperationReturns
  \/ rpc = "calling" /\ \E o \in FailuresAt(site) : OperationRaises(o)
  \/ BackoffSleep
  \/ rpc = "idle" /\ \E s \in DirectSites, o \in SdkFailures \cup {OkOutcome} : OutboundDirect(s, o)
  \/ rpc = "idle" /\ \E e \in RaisedErrors : Classify(e)

\* ------------------------------------------------------ the tool pipeline
\* ToolValidator.validate is called with arguments m in form f
Validate(t, f, m) ==
  /\ tpc = "idle"
  /\ t \in RegistryNames
  /\ m \in ArgMaps(t)
  /\ req' = [tool |-> t, map |-> m]
  /\ valLog' = [valLog EXCEPT ![f] = validate(t, RawArgs(f, m))]
  /\ tpc' = "validated"
  /\ UNCHANGED <<svcOutcome, valOut, handlerRan, handlerArgs, serviceCalls, response>>
  /\ UNCHANGED <<retryVars, extVars>>

\* ToolValidator.validate is called with the same arguments in another form
ValidateAgain(f) ==
  /\ tpc = "validated"
  /\ valLog[f].status = "none"
  /\ valLog' = [valLog EXCEPT ![f] = validate(req.tool, RawArgs(f, req.map))]
  /\ UNCHANGED <<tpc, req, svcOutcome, valOut, handlerRan, handlerArgs, serviceCalls, response>>
  /\ UNCHANGED <<retryVars, extVars>>

\* execute_tool is called with typed arguments
ExecuteTool(t, m, svc) ==
  /\ tpc = "idle"
  /\ t \in ToolNames
  /\ m \in ArgMaps(t)
  /\ t \in RegistryNames => SchemaAccepts(t, m)
  /\ svc \in SvcOutcomes
  /\ LET r == execute_tool(t, svc) IN
       /\ response' = r.response
       /\ handlerRan' = r.handler
       /\ handlerArgs' = IF r.handler = "none" THEN NoVal ELSE ValOk(t, m)
       /\ serviceCalls' = r.calls
  /\ req' = [tool |-> t, map |-> m]
  /\ svcOutcome' = svc
  /\ tpc' = "executed"
  /\ UNCHANGED <<valLog, valOut>>
  /\ UNCHANGED <<retryVars, extVars>>

\* the server's call_tool handler receives a request
CallTool(t, f, m, svc) ==
  /\ tpc = "idle"
  /\ t \in ToolNames
  /\ f \in Forms
  /\ m \in ArgMaps(t)
  /\ svc \in SvcOutcomes
  /\ LET r == call_tool(t, RawArgs(f, m), svc) IN
       /\ response' = r.response
       /\ valOut' = r.val
       /\ handlerRan' = r.handler
       /\ handlerArgs' = IF r.handler = "none" THEN NoVal ELSE r.val
       /\ serviceCalls' = r.calls
  /\ req' = [tool |-> t, map |-> m]
  /\ valLog' = [valLog EXCEPT ![f] = [NoVal EXCEPT !.status = "sent"]]
  /\ svcOutcome' = svc
  /\ tpc' = "called"
  /\ UNCHANGED <<retryVars, extVars>>

ToolNext ==
  \/ tpc = "idle" /\ \E t \in RegistryNames, f \in Forms : \E m \in ArgMaps(t) : Validate(t, f, m)
  \/ \E f \in Forms : ValidateAgain(f)
  \/ tpc = "idle" /\ \E t \in ToolNames, svc \in SvcOutcomes :
                       \E m \in ArgMaps(t) : ExecuteTool(t, m, svc)
  \/ tpc = "idle" /\ \E t \in ToolNames, f \in Forms, svc \in SvcOutcomes :
                       \E m \in ArgMaps(t) : CallTool(t, f, m, svc)

\* ------------------------------------- create_project_field "options"
\* The option names used in the arguments.
Words == {"High", "Low"}

\* A string handed in as "options" is written down by its syntax: the items
\* in order, how each is quoted ("dq": "High", "sq": 'High', "bare": High),
\* whether an item is a string or an object with a name key, the separator
\* between items (", ", " or ", " and "), whether the whole is bracketed, and
\* whether a "Priority -> " label precedes it.
OptStrings ==
  { [type |-> "str", brackets |-> b, quote |-> q, sep |-> sp, arrow |-> a,
     elem |-> el, items |-> it] :
      b \in BOOLEAN, q \in {"dq", "sq", "bare"}, sp \in {",", "or", "and"},
      a \in BOOLEAN, el \in {"str", "obj"},
      it \in {<<>>} \cup {<<w>> : w \in Words} \cup {<<w1, w2>> : w1, w2 \in Words} }

\* the strings of the shapes a client sends
OptTexts ==
  { o \in OptStrings :
      /\ Len(o.items) < 2 => o.sep = ","
      /\ o.elem = "obj" => o.brackets /\ o.quote # "bare" /\ o.sep = "," /\ ~o.arrow
                           /\ o.items # <<>> }

\* the elements of an "options" value that is already a list
ListElems == {"str", "dict_name", "dict_noname", "int"}
OptLists ==
  { [type |-> "list", elems |-> e] :
      e \in {<<>>} \cup {<<x>> : x \in ListElems} \cup {<<x, y>> : x, y \in ListElems} }
OptNone == [type |-> "none"]
OptOther == [type |-> "int"]
\* the text {['High']}: a Python set display holding a list
OptUnhashable == [type |-> "pyset"]
OptInputs == OptTexts \cup OptLists \cup {OptNone, OptOther, OptUnhashable}

\* option values after the step
NameRecord(n) == [kind |-> "record", name |-> n]
PlainString(n) == [kind |-> "str", name |-> n]
OptValue(kind, elems) == [kind |-> kind, elems |-> elems]
NoneValue == OptValue("none", <<>>)
NoOption == [type |-> "unset"]

\* the value an item of the text denotes once parsed
Parsed(o, i) ==
  IF o.elem = "obj" THEN NameRecord(<<o.items[i]>>) ELSE PlainString(<<o.items[i]>>)

\* json.loads(options): the text is JSON when it is a bracketed array of
\* double-quoted items separated by commas, or one double-quoted string
json_loads_options(o) ==
  LET n == Len(o.items) IN
  IF o.arrow THEN [ok |-> FALSE, value |-> NoneValue]
  ELSE IF o.brackets /\ (n = 0 \/ (o.quote = "dq" /\ (n < 2 \/ o.sep = ",")))
    THEN [ok |-> TRUE, value |-> OptValue("list", [i \in 1..n |-> Parsed(o, i)])]
  ELSE IF ~o.brackets /\ n = 1 /\ o.quote = "dq"
    THEN [ok |-> TRUE, value |-> OptValue("str", <<Parsed(o, 1)>>)]
  ELSE [ok |-> FALSE, value |-> NoneValue]

\* ast.literal_eval(options): a Python literal is a list, a tuple or a string
\* of quoted items; a bare name or an "or"/"and" expression is refused
literal_eval_options(o) ==
  LET n == Len(o.items) IN
  IF o.arrow THEN [ok |-> FALSE, value |-> NoneValue]
  ELSE IF o.brackets /\ (n = 0 \/ (o.quote # "bare" /\ (n < 2 \/ o.sep = ",")))
    THEN [ok |-> TRUE, value |-> OptValue("list", [i \in 1..n |-> Parsed(o, i)])]
  ELSE IF ~o.brackets /\ n = 1 /\ o.quote # "bare"
    THEN [ok |-> TRUE, value |-> OptValue("str", <<Parsed(o, 1)>>)]
  ELSE IF ~o.brackets /\ n = 2 /\ o.quote # "bare" /\ o.sep = ","
    THEN [ok |-> TRUE, value |-> OptValue("tuple", [i \in 1..n |-> Parsed(o, i)])]
  ELSE [ok |-> FALSE, value |-> NoneValue]

\* the characters of item i of the text, between two separators
QuoteTok(o) == IF o.quote = "bare" THEN <<>> ELSE <<o.quote>>
ItemText(o, i) ==
  (IF o.brackets /\ i = 1 THEN <<"[">> ELSE <<>>)
    \o QuoteTok(o) \o <<o.items[i]>> \o QuoteTok(o)
    \o (IF o.brackets /\ i = Len(o.items) THEN <<"]">> ELSE <<>>)

\* s.strip(c) for a set of characters c
RECURSIVE LStrip(_, _)
LStrip(s, c) == IF s # <<>> /\ Head(s) \in c THEN LStrip(Tail(s), c) ELSE s
RECURSIVE RStrip(_, _)
RStrip(s, c) ==
  IF s # <<>> /\ s[Len(s)] \in c THEN RStrip(SubSeq(s, 1, Len(s) - 1), c) ELSE s
Strip(s, c) == RStrip(LStrip(s, c), c)

\* item.strip().strip('"').strip("'")
StripQuotes(s) == Strip(Strip(s, {"dq"}), {"sq"})

\* [{"name": item} for item in items if item]
RECURSIVE NameRecords(_)
NameRecords(items) ==
  IF items = <<>> THEN <<>>
  ELSE (IF Head(items) = <<>> THEN <<>> ELSE <<NameRecord(Head(items))>>)
         \o NameRecords(Tail(items))

\* the last resort of the string branch: splitting the text
split_options(o) ==
  LET n == Len(o.items) IN
  IF n = 2
    THEN \* " or " / " and " / "," is in the text
         OptValue("list", NameRecords([i \in 1..2 |-> StripQuotes(ItemText(o, i))]))
  ELSE IF n = 0 /\ o.arrow /\ ~o.brackets
    THEN \* "Priority -> ".strip() no longer holds " -> "
         OptValue("list", <<NameRecord(<<"Priority", "->">>)>>)
  ELSE LET body == IF n = 0 THEN (IF o.brackets THEN <<"[", "]">> ELSE <<>>)
                   ELSE ItemText(o, 1)
           cleaned == StripQuotes(Strip(body, {"[", "]"}))
       IN IF cleaned # <<>> THEN OptValue("list", <<NameRecord(cleaned)>>)
          ELSE NoneValue

\* the list branch: each element becomes a {name} record
coerce_list_element(x) ==
  IF x = "dict_name" THEN NameRecord(<<"High">>)
  ELSE IF x = "str" THEN NameRecord(<<"High">>)
  ELSE NameRecord(<<"str(opt)">>)

\* whether the step raises: ast.literal_eval raises TypeError on an
\* unhashable set element, which except (ValueError, SyntaxError) lets through
coerce_raises(o) == o.type = "pyset"

\* the coercion step of validate for create_project_field
coerce_options(o) ==
  IF o.type = "none" THEN NoneValue
  ELSE IF o.type = "pyset" THEN NoOption
  ELSE IF o.type = "str" THEN
    LET j == json_loads_options(o)
        l == literal_eval_options(o)
    IN IF j.ok THEN j.value
       ELSE IF l.ok THEN l.value
       ELSE split_options(o)
  ELSE IF o.type = "list" THEN
    OptValue("list", [i \in 1..Len(o.elems) |-> coerce_list_element(o.elems[i])])
  ELSE OptValue("list", <<NameRecord(<<"str(options)">>)>>)

CoerceInit ==
  /\ opc = "idle"
  /\ optIn = NoOption
  /\ optOut = NoOption
  /\ optRaised = FALSE

\* validate("create_project_field", {..., "options": o}, schema) runs the
\* coercion step
CoerceOptions(o) ==
  /\ opc = "idle"
  /\ opc' = "coerced"
  /\ optIn' = o
  /\ optOut' = coerce_options(o)
  /\ optRaised' = coerce_raises(o)
  /\ UNCHANGED <<retryVars, toolVars, gqlVars, issueVars, milestoneVars, sprintVars, raceVars, assignVars, delayVars, msUpdateVars>>

CoerceNext ==
  opc = "idle" /\ \E o \in OptInputs : CoerceOptions(o)


\* ------------------------------------------------- GraphQL transport
\* messages of the entries of a GraphQL errors array
MsgNoOrganization == "Could not resolve to an Organization"
MsgNoUser == "Could not resolve to a User"
MsgFatal == "Field 'x' doesn't exist on type 'Query'"
\* an entry without a message key
NoMessage == "<no message>"
ErrorEntries == {MsgNoOrganization, MsgNoUser, MsgFatal, NoMessage}

\* the top-level fields a query of find_by_owner selects
OwnerKeys == {"user", "organization"}

\* the value of a top-level field: null, or an owner with projectsV2.nodes
NullValue == [isNull |-> TRUE, nodes |-> <<>>]
OwnerValue(nodes) == [isNull |-> FALSE, nodes |-> nodes]
OwnerValues(k) ==
  {NullValue, OwnerValue(<<>>),
   OwnerValue(IF k = "user" THEN <<"UserProject">> ELSE <<"OrgProject">>)}

\* the "data" member of a response body: absent, null, or an object
GqlData(kind, fields) == [kind |-> kind, fields |-> fields]
DataAbsent == GqlData("absent", <<>>)
DataNull == GqlData("null", <<>>)
EmptyDict == GqlData("dict", <<>>)
GqlDatas(keys) ==
  {DataAbsent, DataNull}
    \cup { GqlData("dict", f) :
             f \in { g \in UNION {[S -> UNION {OwnerValues(k) : k \in keys}] : S \in SUBSET keys} :
                       \A k \in DOMAIN g : g[k] \in OwnerValues(k) } }

\* the errors arrays: up to MaxErrors entries
MaxErrors == 2
ErrorArrays == UNION {[1..n -> ErrorEntries] : n \in 0..MaxErrors}

\* the body of a 200 response
GqlBody(hasErrors, errors, data) == [hasErrors |-> hasErrors, errors |-> errors, data |-> data]
GqlBodies(keys) ==
  {GqlBody(FALSE, <<>>, d) : d \in GqlDatas(keys)}
    \cup {GqlBody(TRUE, e, d) : e \in ErrorArrays, d \in GqlDatas(keys)}
NoBody == GqlBody(FALSE, <<>>, DataAbsent)

\* what client.post / raise_for_status can raise
GqlTransportErrors ==
  {HttpxStatusError(s, BareResponse) : s \in {404, 503}} \cup {HttpxTransportError(MsgTimeout)}

\* the reply to a request: a 200 response with a body, or an exception
GqlReply(ok, body, err) == [ok |-> ok, body |-> body, err |-> err]
GqlReplies(keys) ==
  {GqlReply(TRUE, b, NoError) : b \in GqlBodies(keys)}
    \cup {GqlReply(FALSE, NoBody, e) : e \in GqlTransportErrors}
NoReply == GqlReply(FALSE, NoBody, NoError)

\* the outcome of a call: the value returned or the exception raised
GqlReturn(data) == [ok |-> TRUE, data |-> data, err |-> NoError]
GqlRaise(err) == [ok |-> FALSE, data |-> DataNull, err |-> err]
NoOutcome == [ok |-> FALSE, data |-> DataAbsent, err |-> NoError]

\* the errors whose message is not a nullable-field message
fatal_errors(errors) ==
  {i \in 1..Len(errors) : errors[i] \notin {MsgNoOrganization, MsgNoUser}}

\* [err.get("message", "Unknown error") for err in errors]
error_messages(errors) ==
  [i \in 1..Len(errors) |-> IF errors[i] = NoMessage THEN "Unknown error" ELSE errors[i]]

\* GraphQLClient.execute
execute(reply) ==
  IF ~reply.ok THEN GqlRaise(GraphQLExecuteRaise(reply.err))
  ELSE LET b == reply.body IN
    IF b.hasErrors THEN
      IF /\ b.data.kind = "dict"
         /\ fatal_errors(b.errors) = {}
         /\ DOMAIN b.data.fields # {}
      THEN GqlReturn(b.data)
      ELSE GqlRaise(GraphQLExecuteRaise(
             MkError("Exception", FALSE, StatusNone, NoResponse, "absent",
                     <<"GraphQL errors:">> \o error_messages(b.errors))))
    ELSE GqlReturn(IF b.data.kind = "absent" THEN EmptyDict ELSE b.data)

\* BaseGitHubRepository.graphql: execute under with_retry, the reply being
\* the same on every attempt
graphql(reply) ==
  LET r == execute(reply) IN
  IF r.ok THEN r
  ELSE GqlRaise(handle_error(r.err,
         RetryContext(<<"(executing GraphQL query)">>, is_retryable_error(r.err))))


\* -------------------------------------- GitHubProjectRepository.find_by_owner
\* "x" in str(e)
InMessage(err, text) == \E i \in 1..Len(err.msg) : err.msg[i] = text

FboResult(r, projects, err) == [raised |-> r, projects |-> projects, err |-> err]

\* mutant of user_probe: the extraction of the user's projects is not
\* guarded, so a null user field raises out of find_by_owner
user_probe_unguarded(r) ==
  IF ~r.ok THEN FboResult(FALSE, <<>>, NoError)
  ELSE IF r.data.kind # "dict" THEN FboResult(FALSE, <<>>, NoError)
  ELSE IF "user" \notin DOMAIN r.data.fields THEN FboResult(FALSE, <<>>, NoError)
  ELSE IF r.data.fields["user"].isNull
    THEN FboResult(TRUE, <<>>,
           MkError("AttributeError", FALSE, StatusNone, NoResponse, "absent",
                   <<"'NoneType' object has no attribute 'get'">>))
  ELSE FboResult(FALSE, r.data.fields["user"].nodes, NoError)

\* the first try block: the user's projects; every exception is caught
\* (None.get(...) on a null user field or on null data included)
user_probe(r) ==
  IF ~r.ok THEN FboResult(FALSE, <<>>, NoError)
  ELSE IF r.data.kind # "dict" THEN FboResult(FALSE, <<>>, NoError)
  ELSE IF "user" \notin DOMAIN r.data.fields THEN FboResult(FALSE, <<>>, NoError)
  ELSE IF r.data.fields["user"].isNull THEN FboResult(FALSE, <<>>, NoError)
  ELSE FboResult(FALSE, r.data.fields["user"].nodes, NoError)

\* the second try block: the organization's projects; an exception other
\* than "Could not resolve to an Organization" is re-raised when the user
\* probe found no project
org_probe(r, user_projects) ==
  IF ~r.ok THEN
    IF ~InMessage(r.err, MsgNoOrganization) /\ user_projects = <<>>
    THEN FboResult(TRUE, <<>>, r.err)
    ELSE FboResult(FALSE, <<>>, NoError)
  ELSE IF r.data.kind # "dict" \/ DOMAIN r.data.fields = {} THEN FboResult(FALSE, <<>>, NoError)
  ELSE IF "organization" \notin DOMAIN r.data.fields THEN FboResult(FALSE, <<>>, NoError)
  ELSE IF r.data.fields["organization"].isNull THEN FboResult(FALSE, <<>>, NoError)
  ELSE FboResult(FALSE, r.data.fields["organization"].nodes, NoError)

find_by_owner(userReply, orgReply) ==
  LET u == user_probe(graphql(userReply)) IN
  IF u.raised THEN u
  ELSE LET o == org_probe(graphql(orgReply), u.projects) IN
       IF o.raised THEN o
       ELSE FboResult(FALSE, u.projects \o o.projects, NoError)

NoFbo == FboResult(FALSE, <<>>, NoError)

GraphqlInit ==
  /\ gpc = "idle"
  /\ gqlReply = NoReply
  /\ gqlOut = NoOutcome
  /\ fboUser = NoReply
  /\ fboOrg = NoReply
  /\ fboOut = NoFbo

\* GraphQLClient.execute receives the reply to its POST
Execute(reply) ==
  /\ gpc = "idle"
  /\ gpc' = "executed"
  /\ gqlReply' = reply
  /\ gqlOut' = execute(reply)
  /\ UNCHANGED <<fboUser, fboOrg, fboOut>>
  /\ UNCHANGED <<retryVars, toolVars, coerceVars, issueVars, milestoneVars, sprintVars, raceVars, assignVars, delayVars, msUpdateVars>>

\* find_by_owner(owner): GitHub answers the user query and then the
\* organization query
FindByOwner(u, o) ==
  /\ gpc = "idle"
  /\ gpc' = "found"
  /\ fboUser' = u
  /\ fboOrg' = o
  /\ fboOut' = find_by_owner(u, o)
  /\ UNCHANGED <<gqlReply, gqlOut>>
  /\ UNCHANGED <<retryVars, toolVars, coerceVars, issueVars, milestoneVars, sprintVars, raceVars, assignVars, delayVars, msUpdateVars>>

GraphqlNext ==
  \/ gpc = "idle" /\ \E reply \in GqlReplies(OwnerKeys) : Execute(reply)
  \/ gpc = "idle" /\ \E u \in GqlReplies({"user"}), o \in GqlReplies({"organization"}) :
                       FindByOwner(u, o)


\* ------------------------------------------------------ issue repository
\* ResourceStatus
ACTIVE == "active"
CLOSED == "closed"

\* titles and descriptions of CreateIssue ("" is the empty string)
Titles == {"", "T1", "T2"}
Descriptions == {"", "D1"}
CreateLabels == {<<>>, <<"bug">>}
CreateIssueData ==
  {[title |-> t, description |-> d, labels |-> l] :
     t \in Titles, d \in Descriptions, l \in CreateLabels}

\* an issue as GitHub holds it; an empty body is stored as null
NullBody == "<null>"
GhIssue(title, body, state, labels) ==
  [title |-> title, body |-> body, state |-> state, labels |-> labels]
\* POST /repos/{owner}/{repo}/issues with title, body and labels
NewGhIssue(data) ==
  GhIssue(data.title,
          IF data.description = "" THEN NullBody ELSE data.description,
          "open", data.labels)

\* the domain Issue
Issue(number, title, description, status, labels) ==
  [id |-> ToString(number), number |-> number, title |-> title,
   description |-> description, status |-> status, labels |-> labels]

\* mutant of _convert_issue: the body is passed on as GitHub holds it
convert_issue_raw_body(n, g) ==
  Issue(n, g.title, g.body, IF g.state = "closed" THEN CLOSED ELSE ACTIVE, g.labels)

\* _convert_issue, and the same conversion of the JSON in _create_issue_via_api
convert_issue(n, g) ==
  Issue(n, g.title, IF g.body = NullBody THEN "" ELSE g.body,
        IF g.state = "closed" THEN CLOSED ELSE ACTIVE, g.labels)

\* errors of the SDK call repo.create_issue
AssertionErr == MkError("AssertionError", FALSE, StatusNone, NoResponse, "absent", <<"assert">>)
TimeoutErr == MkError("Exception", FALSE, StatusNone, NoResponse, "absent", MsgTimeout)
StatusErr(s) == MkError("GithubException", TRUE, s, BareResponse, "absent", MsgServer)

\* one invocation of repo.create_issue: whether GitHub created the issue,
\* and whether the client got it back (ok) or an exception (err)
SdkAttempt(created, ok, err) == [created |-> created, ok |-> ok, err |-> err]
AttemptOk == SdkAttempt(TRUE, TRUE, NoError)
AttemptOutcomes ==
  {AttemptOk, SdkAttempt(TRUE, FALSE, AssertionErr), SdkAttempt(TRUE, FALSE, TimeoutErr),
   SdkAttempt(FALSE, FALSE, StatusErr(422)), SdkAttempt(FALSE, FALSE, StatusErr(503)),
   SdkAttempt(FALSE, FALSE, StatusErr(429))}

\* with_retry goes on after attempt k (0-based) with outcome o
RetriesAfter(o, k) == ~o.ok /\ is_retryable_error(o.err) /\ ~IsLastAttempt(k)

\* the runs of the SDK path: the outcomes of the invocations with_retry makes
SdkRuns ==
  { r \in UNION {[1..n -> AttemptOutcomes] : n \in 1..RetryAttempts} :
      /\ \A i \in 1..(Len(r) - 1) : RetriesAfter(r[i], i - 1)
      /\ ~RetriesAfter(r[Len(r)], Len(r) - 1) }

\* the reply to the POST of _create_issue_via_api: 201, another status, or an
\* httpx.HTTPError raised after (lost) or before the issue was created
ApiNone == [kind |-> "none", created |-> FALSE, status |-> 0]
ApiOutcomes ==
  {[kind |-> "status", created |-> TRUE, status |-> 201],
   [kind |-> "status", created |-> FALSE, status |-> 422],
   [kind |-> "status", created |-> FALSE, status |-> 404],
   [kind |-> "httperror", created |-> TRUE, status |-> 0],
   [kind |-> "httperror", created |-> FALSE, status |-> 0]}

ValueErr(msg) == MkError("ValueError", FALSE, StatusNone, NoResponse, "absent", msg)

\* the result of a repository call: the value returned or the error raised,
\* with the issues on GitHub afterwards
IssResult(gh, ok, value, err) == [gh |-> gh, ok |-> ok, value |-> value, err |-> err]
NoIssue == Issue(0, "", "", ACTIVE, <<>>)
NoneIssue == [id |-> "None", number |-> 0, title |-> "", description |-> "",
              status |-> ACTIVE, labels |-> <<>>]

\* with_retry(_create_issue, "creating issue") from attempt k on
RECURSIVE with_retry_create(_, _, _, _)
with_retry_create(gh, data, run, k) ==
  LET o == run[k + 1]
      gh1 == IF o.created THEN Append(gh, NewGhIssue(data)) ELSE gh
  IN IF o.ok THEN IssResult(gh1, TRUE, convert_issue(Len(gh1), gh1[Len(gh1)]), NoError)
     ELSE IF ~is_retryable_error(o.err) \/ IsLastAttempt(k)
       THEN IssResult(gh1, FALSE, NoIssue,
                      handle_error(o.err, RetryContext(<<"(creating issue)">>, IsLastAttempt(k))))
     ELSE with_retry_create(gh1, data, run, k + 1)

\* _create_issue_via_api
create_issue_via_api(gh, data, api) ==
  LET gh1 == IF api.created THEN Append(gh, NewGhIssue(data)) ELSE gh IN
  IF api.kind = "status" /\ api.status = 201
    THEN IssResult(gh1, TRUE, convert_issue(Len(gh1), gh1[Len(gh1)]), NoError)
  ELSE IF api.kind = "status"
    THEN IssResult(gh1, FALSE, NoIssue,
                   ValueErr(<<"GitHub API error", ToString(api.status)>>))
  ELSE IssResult(gh1, FALSE, NoIssue, ValueErr(<<"HTTP error creating issue:">>))

\* whether create turns to _create_issue_via_api after the SDK path raised e:
\* the except AssertionError clause, or a non-retryable error
FallsBack(e) == e.cls = "AssertionError" \/ ~is_retryable_error(e)

\* the final except clause of create: every failure leaves as a ValueError
final_error(e) ==
  LET has(t) == InMessage(e, t) IN
  ValueErr((IF has("Bad credentials") \/ has("401") THEN <<"GitHub authentication failed:">>
            ELSE IF has("Not Found") \/ has("404") THEN <<"Repository or resource not found:">>
            ELSE IF has("Forbidden") \/ has("403") THEN <<"Permission denied:">>
            ELSE <<"Failed to create issue:", e.cls>>) \o e.msg)

\* GitHubIssueRepository.create; fallback tells whether the raw POST was sent
create_issue(gh, data, run, api) ==
  IF data.title = ""
    THEN [res |-> IssResult(gh, FALSE, NoIssue,
                            final_error(ValueErr(<<"Issue title is required">>))),
          fallback |-> FALSE, sdkCalls |-> 0]
  ELSE LET s == with_retry_create(gh, data, run, 0) IN
    IF s.ok THEN [res |-> s, fallback |-> FALSE, sdkCalls |-> Len(run)]
    ELSE IF FallsBack(s.err)
      THEN LET a == create_issue_via_api(s.gh, data, api) IN
           [res |-> IF a.ok THEN a ELSE IssResult(a.gh, FALSE, NoIssue, final_error(a.err)),
            fallback |-> TRUE, sdkCalls |-> Len(run)]
    ELSE [res |-> IssResult(s.gh, FALSE, NoIssue, final_error(s.err)),
          fallback |-> FALSE, sdkCalls |-> Len(run)]

\* whether the SDK run r ends in the fallback
NeedsFallback(r) ==
  LET s == with_retry_create(<<>>, [title |-> "T1", description |-> "", labels |-> <<>>], r, 0)
  IN ~s.ok /\ FallsBack(s.err)

\* repo.get_issue(int(id)): the replies of GitHub to the fetch
FetchOutcomes == {"ok", "error"}
IssueIds == {"1", "2", "3", "4", "9", "abc"}
\* int(id)
IdNumber(id) ==
  CASE id = "1" -> 1 [] id = "2" -> 2 [] id = "3" -> 3 [] id = "4" -> 4
    [] id = "9" -> 9 [] OTHER -> 0
IsNumeric(id) == id # "abc"

\* GitHubIssueRepository.find_by_id: every exception gives None
find_by_id(gh, id, fetch) ==
  IF IsNumeric(id) /\ fetch = "ok" /\ IdNumber(id) \in 1..Len(gh)
  THEN IssResult(gh, TRUE, convert_issue(IdNumber(id), gh[IdNumber(id)]), NoError)
  ELSE IssResult(gh, TRUE, NoneIssue, NoError)


\* ------------------------------------------------------ update_issue tool
\* an argument that was not supplied (None)
Absent == "<absent>"
\* the status strings a caller sends
StatusArgs == {Absent, "open", "closed", "in_progress", "in-progress", "in progress", "done"}
\* the labels arguments a caller sends
NoLabels == [given |-> FALSE, list |-> <<>>]
Labels(l) == [given |-> TRUE, list |-> l]
LabelArgs ==
  {NoLabels, Labels(<<>>), Labels(<<"bug">>), Labels(<<"in_progress">>), Labels(<<"In-Progress">>)}
UpdateArgs ==
  {[issue_id |-> i, status |-> s, labels |-> l] :
     i \in {"1", "9"}, s \in StatusArgs, l \in LabelArgs}

\* status_str.lower().replace("_", " ").replace("-", " ").strip()
normalized_status(s) ==
  IF s \in {"in_progress", "in-progress", "in progress"} THEN "in progress" ELSE s

\* status_map.get(normalized_status, ResourceStatus.ACTIVE)
status_map(n) == IF n = "closed" THEN CLOSED ELSE ACTIVE

\* str(l).lower()
LowerLabel(l) == IF l = "In-Progress" THEN "in-progress" ELSE l
SeqHas(s, x) == \E i \in 1..Len(s) : s[i] = x
HasInProgress(names) == SeqHas(names, "in-progress") \/ SeqHas(names, "in_progress")
LowerAll(s) == [i \in 1..Len(s) |-> LowerLabel(s[i])]

\* the update_data execute_update_issue builds from its arguments
update_data(args) ==
  LET inProgress == args.status # Absent /\ normalized_status(args.status) = "in progress"
      adds == inProgress /\ ~HasInProgress(LowerAll(args.labels.list))
      \* current_labels is the caller's list when that is non-empty, and
      \* append changes it in place
      argLabels == IF adds /\ args.labels.list # <<>>
                   THEN Append(args.labels.list, "in-progress") ELSE args.labels.list
  IN [hasStatus |-> args.status # Absent,
      status |-> IF args.status = Absent THEN ACTIVE
                 ELSE status_map(normalized_status(args.status)),
      hasLabels |-> args.labels.given \/ adds,
      labels |-> IF args.labels.given THEN argLabels
                 ELSE IF adds THEN <<"in-progress">> ELSE <<>>,
      add_in_progress_label |-> adds]

\* GitHubIssueRepository.update on an issue g that get_issue returned
apply_update(g, data) ==
  LET g1 == IF data.hasStatus
            THEN [g EXCEPT !.state = IF data.status = CLOSED THEN "closed" ELSE "open"]
            ELSE g
      should_add == data.add_in_progress_label
  IN IF data.hasLabels
     THEN [g1 EXCEPT !.labels =
             IF should_add /\ ~HasInProgress(LowerAll(data.labels))
             THEN Append(data.labels, "in-progress") ELSE data.labels]
     ELSE IF should_add \/ (data.hasStatus /\ data.status = ACTIVE)
       THEN [g1 EXCEPT !.labels =
               IF ~HasInProgress(g1.labels) THEN Append(g1.labels, "in-progress")
               ELSE g1.labels]
     ELSE g1

\* GitHubIssueRepository.update: get_issue raises for an unknown number or a
\* failed request, and the exception of the SDK leaves the method as it is
repo_update(gh, id, data, fetch) ==
  IF ~IsNumeric(id)
    THEN IssResult(gh, FALSE, NoIssue, ValueErr(<<"invalid literal for int()">>))
  ELSE IF fetch # "ok" THEN IssResult(gh, FALSE, NoIssue, StatusErr(503))
  ELSE IF IdNumber(id) \notin 1..Len(gh) THEN IssResult(gh, FALSE, NoIssue, StatusErr(404))
  ELSE LET n == IdNumber(id)
           g == apply_update(gh[n], data)
       IN IssResult([gh EXCEPT ![n] = g], TRUE, convert_issue(n, g), NoError)

\* what happens in _try_update_project_item_status
\*   list_raises:   list_projects raises
\*   no_project:    there is no project
\*   item_fails:    the item lookup fails (get_project_item_id_for_issue
\*                  catches it and returns None)
\*   item_absent:   the issue is in no project
\*   field_fails:   the field lookup fails (get_field_by_name returns None)
\*   field_absent:  the project has no Status field
\*   write_raises:  set_field_value raises
\*   written:       the Status field is set
SecondaryOutcomes ==
  {"list_raises", "no_project", "item_fails", "item_absent", "field_fails",
   "field_absent", "write_raises", "written"}
NoSecondary == "not_attempted"

\* whether an exception reaches the except clause of
\* _try_update_project_item_status
secondary_raises(sec) == sec \in {"list_raises", "write_raises"}

\* the except clause reads self._logger, which ProjectManagementService
\* never sets: AttributeError leaves _try_update_project_item_status
secondary_handler(sec) ==
  IF secondary_raises(sec)
  THEN MkError("AttributeError", FALSE, StatusNone, NoResponse, "absent",
               <<"'ProjectManagementService' object has no attribute '_logger'">>)
  ELSE NoError

\* ProjectManagementService.update_issue
service_update_issue(gh, id, data, fetch, sec) ==
  LET r == repo_update(gh, id, data, fetch) IN
  IF ~r.ok THEN [res |-> r, secondary |-> NoSecondary]
  ELSE IF data.hasStatus /\ data.status = ACTIVE /\ data.add_in_progress_label
    THEN LET e == secondary_handler(sec) IN
         [res |-> IF e = NoError THEN r ELSE IssResult(r.gh, FALSE, NoIssue, e),
          secondary |-> sec]
  ELSE [res |-> r, secondary |-> NoSecondary]

\* execute_update_issue: the handler has no try block, the service's
\* exception leaves it
execute_update_issue(gh, args, fetch, sec) ==
  service_update_issue(gh, args.issue_id, update_data(args), fetch, sec)

\* whether the secondary attempt runs for these arguments
AttemptsSecondary(args) ==
  LET d == update_data(args) IN d.hasStatus /\ d.status = ACTIVE /\ d.add_in_progress_label


\* ------------------------------------------------ issue operations
\* bound on the number of update_issue calls of a behaviour
MaxUpdates == 2

NoIssReq == [op |-> "none"]
NoIssOut == [ok |-> FALSE, value |-> NoIssue, err |-> NoError, fallback |-> FALSE,
             sdkCalls |-> 0, secondary |-> NoSecondary]

NoCreated == [ok |-> FALSE, data |-> [title |-> "", description |-> "", labels |-> <<>>],
              id |-> "", fallback |-> FALSE]

IssueInit ==
  /\ ghIssues = <<>>
  /\ ipc = "idle"
  /\ issReq = NoIssReq
  /\ issOut = NoIssOut
  /\ ghBefore = <<>>
  /\ issCreated = NoCreated
  /\ updates = 0

\* GitHubIssueRepository.create(data): run is what the SDK invocations do,
\* api the reply to the fallback POST (if one is sent)
CreateIssue(data, run, api) ==
  /\ ipc = "idle"
  /\ (api = ApiNone) = ~(data.title # "" /\ NeedsFallback(run))
  /\ LET c == create_issue(ghIssues, data, run, api) IN
       /\ ghIssues' = c.res.gh
       /\ issOut' = [ok |-> c.res.ok, value |-> c.res.value, err |-> c.res.err,
                     fallback |-> c.fallback, sdkCalls |-> c.sdkCalls,
                     secondary |-> NoSecondary]
  /\ ipc' = "created"
  /\ issReq' = [op |-> "create", data |-> data, run |-> run, api |-> api]
  /\ ghBefore' = ghIssues
  /\ issCreated' = LET c == create_issue(ghIssues, data, run, api) IN
                    [ok |-> c.res.ok, data |-> data, id |-> c.res.value.id,
                     fallback |-> c.fallback]
  /\ UNCHANGED updates
  /\ UNCHANGED <<retryVars, toolVars, coerceVars, gqlVars, milestoneVars, sprintVars, raceVars, assignVars, delayVars, msUpdateVars>>

\* GitHubIssueRepository.find_by_id(id)
FindById(id, fetch) ==
  /\ ipc \in {"created", "updated"}
  /\ LET f == find_by_id(ghIssues, id, fetch) IN
       issOut' = [ok |-> f.ok, value |-> f.value, err |-> f.err, fallback |-> FALSE,
                  sdkCalls |-> 1, secondary |-> NoSecondary]
  /\ ipc' = "found"
  /\ issReq' = [op |-> "find_by_id", id |-> id, fetch |-> fetch]
  /\ ghBefore' = ghIssues
  /\ UNCHANGED <<ghIssues, issCreated, updates>>
  /\ UNCHANGED <<retryVars, toolVars, coerceVars, gqlVars, milestoneVars, sprintVars, raceVars, assignVars, delayVars, msUpdateVars>>

\* the update_issue tool: execute_update_issue(service, args)
UpdateIssue(args, fetch, sec) ==
  /\ ipc \in {"created", "updated"}
  /\ updates < MaxUpdates
  /\ (sec = NoSecondary) = ~AttemptsSecondary(args)
  /\ LET u == execute_update_issue(ghIssues, args, fetch, sec) IN
       /\ ghIssues' = u.res.gh
       /\ issOut' = [ok |-> u.res.ok, value |-> u.res.value, err |-> u.res.err,
                     fallback |-> FALSE, sdkCalls |-> 1, secondary |-> u.secondary]
  /\ ipc' = "updated"
  /\ issReq' = [op |-> "update_issue", args |-> args, fetch |-> fetch, sec |-> sec]
  /\ ghBefore' = ghIssues
  /\ updates' = updates + 1
  /\ UNCHANGED issCreated
  /\ UNCHANGED <<retryVars, toolVars, coerceVars, gqlVars, milestoneVars, sprintVars, raceVars, assignVars, delayVars, msUpdateVars>>

\* creation on every run of the SDK path, and the fetch of an issue
IssueCreateNext ==
  \/ ipc = "idle" /\ \E data \in CreateIssueData, run \in SdkRuns :
                       \E api \in (IF data.title # "" /\ NeedsFallback(run)
                                   THEN ApiOutcomes ELSE {ApiNone}) :
                         CreateIssue(data, run, api)
  \/ ipc \in {"created", "updated"} /\ \E id \in IssueIds, fetch \in FetchOutcomes :
                       FindById(id, fetch)

\* updates of an issue that the SDK created at the first attempt
IssueUpdateNext ==
  \/ ipc = "idle" /\ \E l \in CreateLabels :
                       CreateIssue([title |-> "T1", description |-> "D1", labels |-> l],
                                   <<AttemptOk>>, ApiNone)
  \/ ipc \in {"created", "updated"} /\ updates < MaxUpdates
       /\ \E args \in UpdateArgs, fetch \in FetchOutcomes :
            \E sec \in (IF AttemptsSecondary(args) THEN SecondaryOutcomes ELSE {NoSecondary}) :
              UpdateIssue(args, fetch, sec)
  \/ ipc \in {"created", "updated"} /\ \E id \in IssueIds, fetch \in FetchOutcomes :
                       FindById(id, fetch)


\* ------------------------------------------------- milestone due dates
\* a due_date argument is a string: a sequence of characters
DigitChars == {"0", "1", "2", "3", "4", "5", "6", "7", "8", "9"}
DigitValue(c) ==
  CASE c = "0" -> 0 [] c = "1" -> 1 [] c = "2" -> 2 [] c = "3" -> 3 [] c = "4" -> 4
    [] c = "5" -> 5 [] c = "6" -> 6 [] c = "7" -> 7 [] c = "8" -> 8 [] c = "9" -> 9
    [] OTHER -> 0

\* str.isdigit()
isdigit(s) == Len(s) > 0 /\ \A i \in 1..Len(s) : s[i] \in DigitChars

\* int(s) for a string of digits
RECURSIVE int_of(_)
int_of(s) ==
  IF s = <<>> THEN 0
  ELSE 10 * int_of(SubSeq(s, 1, Len(s) - 1)) + DigitValue(s[Len(s)])

\* the calendar datetime() enforces
IsLeapYear(y) == (y % 4 = 0 /\ y % 100 # 0) \/ y % 400 = 0
DaysInMonth(y, m) ==
  IF m = 2 THEN (IF IsLeapYear(y) THEN 29 ELSE 28)
  ELSE IF m \in {4, 6, 9, 11} THEN 30 ELSE 31
ValidDate(y, m, d) == y \in 1..9999 /\ m \in 1..12 /\ d \in 1..DaysInMonth(y, m)

\* a datetime: `time` tells whether the string carried a time of day
DateTime(y, m, d, time) == [year |-> y, month |-> m, day |-> d, time |-> time]
\* due_on = None
NoDate == [year |-> 0, month |-> 0, day |-> 0, time |-> FALSE]

\* data.due_date.replace('Z', '+00:00')
RECURSIVE replace_Z(_)
replace_Z(s) ==
  IF s = <<>> THEN <<>>
  ELSE (IF Head(s) = "Z" THEN <<"+", "0", "0", ":", "0", "0">> ELSE <<Head(s)>>)
       \o replace_Z(Tail(s))

\* data.due_date[:10]
Slice10(s) == SubSeq(s, 1, IF Len(s) < 10 THEN Len(s) ELSE 10)

\* the three fields of a ten-character date string with separator sep, read
\* at the positions of the year-first or the month-first layout
FieldsYMD(s) == [y |-> SubSeq(s, 1, 4), m |-> SubSeq(s, 6, 7), d |-> SubSeq(s, 9, 10),
                 s1 |-> s[5], s2 |-> s[8]]
FieldsMDY(s) == [m |-> SubSeq(s, 1, 2), d |-> SubSeq(s, 4, 5), y |-> SubSeq(s, 7, 10),
                 s1 |-> s[3], s2 |-> s[6]]
DateOfFields(f, sep) ==
  IF /\ f.s1 = sep /\ f.s2 = sep
     /\ isdigit(f.y) /\ isdigit(f.m) /\ isdigit(f.d)
     /\ ValidDate(int_of(f.y), int_of(f.m), int_of(f.d))
  THEN DateTime(int_of(f.y), int_of(f.m), int_of(f.d), FALSE)
  ELSE NoDate

\* datetime.strptime(text, fmt) for a text of ten characters (the code passes
\* due_date[:10] of a string of at least ten); NoDate stands for ValueError
DateFormats == <<"%Y-%m-%d", "%Y/%m/%d", "%m/%d/%Y">>
strptime(text, fmt) ==
  IF Len(text) # 10 THEN NoDate
  ELSE CASE fmt = "%Y-%m-%d" -> DateOfFields(FieldsYMD(text), "-")
         [] fmt = "%Y/%m/%d" -> DateOfFields(FieldsYMD(text), "/")
         [] OTHER -> DateOfFields(FieldsMDY(text), "/")

\* the time-of-day tails datetime.fromisoformat accepts after the date, among
\* the tails of DueDateTails (after the replacement of Z)
IsoTimeTails ==
  {<<"T", "1", "0", ":", "0", "0", ":", "0", "0">>,
   <<"T", "1", "0", ":", "0", "0", ":", "0", "0", "+", "0", "0", ":", "0", "0">>}

\* datetime.fromisoformat(text) for a text of at least ten characters; NoDate
\* stands for ValueError
fromisoformat(text) ==
  LET date == strptime(Slice10(text), "%Y-%m-%d")
      rest == SubSeq(text, 11, Len(text))
  IN  IF date = NoDate THEN NoDate
      ELSE IF rest = <<>> THEN date
      ELSE IF rest \in IsoTimeTails THEN [date EXCEPT !.time = TRUE]
      ELSE NoDate

\* the loop over the three formats: the first that parses wins
RECURSIVE try_formats(_, _)
try_formats(text, i) ==
  IF i > Len(DateFormats) THEN NoDate
  ELSE IF strptime(text, DateFormats[i]) # NoDate THEN strptime(text, DateFormats[i])
  ELSE try_formats(text, i + 1)

\* the parsing block of GitHubMilestoneRepository.create:
\* [ok, due_on] or [ok = FALSE] for the ValueError it raises
DueParsed(d) == [ok |-> TRUE, due_on |-> d]
DueRejected == [ok |-> FALSE, due_on |-> NoDate]
parse_due_date(due_date) ==
  IF due_date = <<>> THEN DueParsed(NoDate)
  ELSE IF Len(due_date) = 4 /\ isdigit(due_date)
    THEN (IF int_of(due_date) \in 1..9999
          THEN DueParsed(DateTime(int_of(due_date), 12, 31, FALSE))
          ELSE DueRejected)
  ELSE IF Len(due_date) >= 10
    THEN LET iso == fromisoformat(replace_Z(due_date))
             d == IF iso # NoDate THEN iso ELSE try_formats(Slice10(due_date), 1)
         IN  IF d = NoDate THEN DueRejected ELSE DueParsed(d)
  ELSE DueRejected


\* the due_date strings a caller sends: dates in the year-first and the
\* month-first layout with either separator, real and impossible calendar
\* days, alone or followed by a tail; bare years; other texts
DueYears == {<<"2", "0", "2", "4">>, <<"2", "0", "2", "5">>, <<"0", "0", "0", "0">>}
DueMonths == {<<"0", "2">>, <<"1", "2">>, <<"1", "3">>}
DueDays == {<<"0", "1">>, <<"2", "9">>, <<"3", "0">>}
DueSeparators == {"-", "/"}
DueDateTails ==
  {<<>>,
   <<"T", "1", "0", ":", "0", "0", ":", "0", "0", "Z">>,
   <<"T", "1", "0", ":", "0", "0", ":", "0", "0", "+", "0", "0", ":", "0", "0">>,
   <<"T", "2", "5", ":", "0", "0", ":", "0", "0">>,
   <<" ", "s", "o", "o", "n">>}
DueTexts ==
  {<<"s", "o", "o", "n">>, <<"2", "0", "2">>, <<"2", "0", "2", "5", "-", "2", "-", "1">>,
   <<"n", "e", "x", "t", " ", "f", "r", "i", "d", "a", "y">>}
DueDates ==
  {y \o <<s>> \o m \o <<s>> \o d \o t :
     y \in DueYears, m \in DueMonths, d \in DueDays, s \in DueSeparators, t \in DueDateTails}
  \cup {m \o <<s>> \o d \o <<s>> \o y \o t :
     y \in DueYears, m \in DueMonths, d \in DueDays, s \in DueSeparators, t \in DueDateTails}
  \cup DueYears \cup DueTexts \cup {<<>>}

\* a milestone on GitHub, and the domain Milestone _convert_milestone builds
GhMilestone(number, due_on) == [number |-> number, due_on |-> due_on, state |-> "open"]
NoMilestone == GhMilestone(0, NoDate)

\* what GitHub does with an outbound call of the milestone repository
MilestoneNet == {"ok", "error"}

\* the result of a milestone repository call
MsResult(gh, ok, value, err) == [gh |-> gh, ok |-> ok, value |-> value, err |-> err]

\* GitHubMilestoneRepository.create; gh is the set of milestones on GitHub
create_milestone(gh, due_date, net) ==
  LET p == parse_due_date(due_date)
      number == Cardinality(gh) + 1
  IN  IF ~p.ok
      THEN MsResult(gh, FALSE, NoMilestone,
                    ValueErr(<<"Invalid due_date format",
                               "Expected ISO format (YYYY-MM-DD) or year (YYYY)">>))
      ELSE IF net = "error"
      THEN MsResult(gh, FALSE, NoMilestone,
                    ValueErr(<<"GitHub API error creating milestone">>))
      ELSE MsResult(gh \cup {GhMilestone(number, p.due_on)}, TRUE,
                    GhMilestone(number, p.due_on), NoError)

\* the milestone_id arguments a caller sends
MilestoneIds == {"", "1", "2", "abc"}

\* the exceptions PyGithub raises from get_milestone / delete
UnknownObjectException ==
  MkError("UnknownObjectException", TRUE, 404, NoResponse, "absent", <<"Not Found">>)
GithubException ==
  MkError("GithubException", TRUE, 500, NoResponse, "absent", <<"Server Error">>)

\* GitHubMilestoneRepository.delete: get_milestone(int(id)) and
\* milestone.delete(), neither wrapped in with_retry or handle_error
repo_delete_milestone(gh, id, net) ==
  IF ~IsNumeric(id)
  THEN MsResult(gh, FALSE, NoMilestone, ValueErr(<<"invalid literal for int()">>))
  ELSE IF net = "error" THEN MsResult(gh, FALSE, NoMilestone, GithubException)
  ELSE IF \A m \in gh : m.number # IdNumber(id)
  THEN MsResult(gh, FALSE, NoMilestone, UnknownObjectException)
  ELSE MsResult({m \in gh : m.number # IdNumber(id)}, TRUE, NoMilestone, NoError)

\* ProjectManagementService.delete_milestone
service_delete_milestone(gh, id, net) ==
  IF id = ""
  THEN MsResult(gh, FALSE, NoMilestone, ValueErr(<<"Milestone ID is required">>))
  ELSE repo_delete_milestone(gh, id, net)

\* execute_delete_milestone: no try/except, an exception of the service
\* leaves the handler
execute_delete_milestone(gh, id, net) ==
  LET r == service_delete_milestone(gh, id, net) IN
  [gh |-> r.gh,
   response |-> IF r.ok THEN Response("success", "", "", <<"delete_milestone", id>>)
                ELSE Response("raised", "", r.err.cls, r.err.msg)]


\* ---------------------------------------------------- milestone operations
MaxDeletes == 2
NoMsReq == [op |-> "none"]
NoMsOut == [ok |-> FALSE, value |-> NoMilestone, err |-> NoError]

MilestoneInit ==
  /\ ghMilestones = {}
  /\ mpc = "idle"
  /\ msReq = NoMsReq
  /\ msOut = NoMsOut
  /\ msLog = <<>>

\* GitHubMilestoneRepository.create(CreateMilestone(due_date = due_date))
CreateMilestone(due_date, net) ==
  /\ mpc = "idle"
  /\ LET r == create_milestone(ghMilestones, due_date, net) IN
       /\ ghMilestones' = r.gh
       /\ msOut' = [ok |-> r.ok, value |-> r.value, err |-> r.err]
  /\ mpc' = "created"
  /\ msReq' = [op |-> "create", due_date |-> due_date, net |-> net]
  /\ UNCHANGED msLog
  /\ UNCHANGED <<retryVars, toolVars, coerceVars, gqlVars, issueVars, sprintVars, raceVars, assignVars, delayVars, msUpdateVars>>

\* the delete_milestone tool: execute_delete_milestone(service, args)
DeleteMilestone(id, net) ==
  /\ mpc \in {"created", "deleted"}
  /\ Len(msLog) < MaxDeletes
  /\ LET r == execute_delete_milestone(ghMilestones, id, net) IN
       /\ ghMilestones' = r.gh
       /\ msLog' = Append(msLog, [id |-> id, net |-> net, response |-> r.response])
  /\ mpc' = "deleted"
  /\ msReq' = [op |-> "delete_milestone", id |-> id, net |-> net]
  /\ UNCHANGED msOut
  /\ UNCHANGED <<retryVars, toolVars, coerceVars, gqlVars, issueVars, sprintVars, raceVars, assignVars, delayVars, msUpdateVars>>

MilestoneNext ==
  \/ mpc = "idle" /\ \E due_date \in DueDates, net \in MilestoneNet :
                       CreateMilestone(due_date, net)
  \/ mpc \in {"created", "deleted"} /\ \E id \in MilestoneIds, net \in MilestoneNet :
                       DeleteMilestone(id, net)


\* ------------------------------------------------------------ sprints
\* the title strings a caller sends, as sequences of characters
SprintTitles == {<<"S", "1">>, <<"N", "u", "l", "l">>, <<>>}

\* the start_date / end_date strings a caller sends; a time of day comes
\* with Z, so a datetime that carries a time is timezone-aware
Jan01 == <<"2", "0", "2", "5", "-", "0", "1", "-", "0", "1">>
Jan14 == <<"2", "0", "2", "5", "-", "0", "1", "-", "1", "4">>
SprintDates ==
  {Jan01, Jan14,
   <<"2", "0", "2", "5", "/", "0", "1", "/", "1", "4">>,
   Jan14 \o <<"T", "1", "0", ":", "0", "0", ":", "0", "0", "Z">>}

\* date.toordinal(): the number of the day, 0001-01-01 being day 1
RECURSIVE DaysBeforeMonth(_, _)
DaysBeforeMonth(y, m) ==
  IF m = 1 THEN 0 ELSE DaysBeforeMonth(y, m - 1) + DaysInMonth(y, m - 1)
toordinal(d) ==
  365 * (d.year - 1) + ((d.year - 1) \div 4) - ((d.year - 1) \div 100)
  + ((d.year - 1) \div 400) + DaysBeforeMonth(d.year, d.month) + d.day

\* start_date.strftime("%Y-%m-%d")
DigitChar(n) ==
  CASE n = 0 -> "0" [] n = 1 -> "1" [] n = 2 -> "2" [] n = 3 -> "3" [] n = 4 -> "4"
    [] n = 5 -> "5" [] n = 6 -> "6" [] n = 7 -> "7" [] n = 8 -> "8" [] OTHER -> "9"
Digits2(n) == <<DigitChar((n \div 10) % 10), DigitChar(n % 10)>>
Digits4(n) == Digits2(n \div 100) \o Digits2(n % 100)
strftime(d) == Digits4(d.year) \o <<"-">> \o Digits2(d.month) \o <<"-">> \o Digits2(d.day)

\* the date parsing of GitHubSprintRepository.create: fromisoformat on both
\* strings, and after a ValueError the three formats on the first ten
\* characters of both; [ok, start, end]
SprintDatesParsed(s, e) == [ok |-> TRUE, start |-> s, end |-> e]
SprintDatesRejected == [ok |-> FALSE, start |-> NoDate, end |-> NoDate]
RECURSIVE try_formats_both(_, _, _)
try_formats_both(s, e, i) ==
  IF i > Len(DateFormats) THEN SprintDatesRejected
  ELSE LET start == strptime(Slice10(s), DateFormats[i])
           end == strptime(Slice10(e), DateFormats[i])
       IN  IF start # NoDate /\ end # NoDate
           THEN SprintDatesParsed(start, end)
           ELSE try_formats_both(s, e, i + 1)
parse_sprint_dates(s, e) ==
  LET start == fromisoformat(replace_Z(s))
      end == fromisoformat(replace_Z(e))
  IN  IF start # NoDate /\ end # NoDate
      THEN SprintDatesParsed(start, end)
      ELSE try_formats_both(s, e, 1)

\* (end_date - start_date).days + 1; the subtraction of an aware and a naive
\* datetime raises TypeError
MixedAwareness(start, end) == start.time # end.time
iteration_duration(start, end) == toordinal(end) - toordinal(start) + 1

\* an iteration: as GitHub holds it (with an id) or as an entry of the
\* write payload; NoId stands for an entry without the key "id"
NoId == 0
Iteration(id, title, startDate, duration) ==
  [id |-> id, title |-> title, startDate |-> startDate, duration |-> duration]

\* mutant of format_existing: the entries are sent as they were read, ids
\* included
format_existing_keep_id(its) == its

\* lines 201-221: the existing iterations without their ids; an entry with
\* an empty title, start date or duration is skipped
RECURSIVE format_existing(_)
format_existing(its) ==
  IF its = <<>> THEN <<>>
  ELSE (IF Head(its).title = <<>> \/ Head(its).startDate = <<>> \/ Head(its).duration = 0
        THEN <<>>
        ELSE <<Iteration(NoId, Head(its).title, Head(its).startDate, Head(its).duration)>>)
       \o format_existing(Tail(its))

\* str.lower() on the letters of the titles
LowerChar(c) ==
  CASE c = "N" -> "n" [] c = "S" -> "s" [] c = "U" -> "u" [] c = "L" -> "l" [] OTHER -> c
\* "null" in text.lower()
ContainsNull(text) ==
  \E i \in 1..(Len(text) - 3) :
    <<LowerChar(text[i]), LowerChar(text[i + 1]), LowerChar(text[i + 2]),
      LowerChar(text[i + 3])>> = <<"n", "u", "l", "l">>

\* min() of start dates written YYYY-MM-DD: the order of the strings is the
\* order of the numbers YYYYMMDD
DateKey(s) ==
  int_of(SubSeq(s, 1, 4)) * 10000 + int_of(SubSeq(s, 6, 7)) * 100 + int_of(SubSeq(s, 9, 10))
min_start_date(its) ==
  its[CHOOSE i \in 1..Len(its) :
        \A j \in 1..Len(its) : DateKey(its[i].startDate) <= DateKey(its[j].startDate)].startDate

\* the iterationConfiguration of the write
IterationConfig(startDate, duration, iterations) ==
  [startDate |-> startDate, duration |-> duration, iterations |-> iterations]
NoWrite == IterationConfig(<<>>, 0, <<>>)

\* GitHub stores the written iterations and gives each an id
RECURSIVE stored_iterations(_, _)
stored_iterations(its, n) ==
  IF n = 0 THEN <<>>
  ELSE Append(stored_iterations(its, n - 1),
              Iteration(n, its[n].title, its[n].startDate, its[n].duration))


\* what the environment does during one create:
\*   no_project:      no project id is given or configured and none is found
\*   no_field:        no iteration field is found and none can be created
\*   read_fails:      the query for the existing iterations raises
\*   config_none:     the field has no configuration (null)
\*   iterations_none: the configuration has no iterations (null)
\*   write_fails:     the updateProjectV2Field mutation raises
\*   ok:              every call is answered
SprintEnvs ==
  {"no_project", "no_field", "read_fails", "config_none", "iterations_none",
   "write_fails", "ok"}

GraphqlFailure ==
  MkError("GitHubAPIError", TRUE, 500, NoResponse, "absent", <<"GraphQL operation">>)
TypeErr(msg) == MkError("TypeError", FALSE, StatusNone, NoResponse, "absent", msg)

\* the result of create: the iterations on GitHub afterwards, the sprint
\* returned or the error raised, and the payload handed to the mutation
SprintResult(gh, ok, value, err, write) ==
  [gh |-> gh, ok |-> ok, value |-> value, err |-> err, write |-> write]
NoSprint == Iteration(NoId, <<>>, <<>>, 0)
SprintFailed(gh, err) == SprintResult(gh, FALSE, NoSprint, err, NoWrite)

\* lines 222-231: the new iteration, without an id
new_iteration(title, start, end) ==
  Iteration(NoId, title, strftime(start), iteration_duration(start, end))

\* lines 233-245: an entry of the list without title or with a duration that
\* is not positive
InvalidIteration(it) == it.title = <<>> \/ it.duration <= 0

\* lines 272-298: the configuration built around the iteration list
iteration_config(all_iterations) ==
  IterationConfig(min_start_date(all_iterations), 14, all_iterations)

\* lines 300-329: the serialization check, the mutation and its answer
write_iterations(gh, all_iterations, env) ==
  IF \E i \in 1..Len(all_iterations) : ContainsNull(all_iterations[i].title)
  THEN SprintFailed(gh, ValueErr(<<"JSON serialization error">>))
  ELSE IF env = "write_fails"
  THEN SprintResult(gh, FALSE, NoSprint, GraphqlFailure, iteration_config(all_iterations))
  ELSE LET stored == stored_iterations(all_iterations, Len(all_iterations)) IN
       SprintResult(stored, TRUE, stored[Len(stored)], NoError,
                    iteration_config(all_iterations))

\* lines 184-245: the existing iterations are read and the list is built
\* and validated
append_iteration(gh, title, start, end, env) ==
  LET existing == IF env \in {"config_none", "iterations_none"} THEN <<>> ELSE gh
      all_iterations == format_existing(existing) \o <<new_iteration(title, start, end)>>
  IN  IF env = "read_fails"
      THEN SprintFailed(gh, GraphqlFailure)
      ELSE IF MixedAwareness(start, end)
      THEN SprintFailed(gh, TypeErr(<<"can't subtract offset-naive and offset-aware datetimes">>))
      ELSE IF InvalidIteration(new_iteration(title, start, end))
      THEN SprintFailed(gh, ValueErr(<<"Invalid iteration data">>))
      ELSE IF \E i \in 1..Len(all_iterations) : InvalidIteration(all_iterations[i])
      THEN SprintFailed(gh, ValueErr(<<"Invalid iteration at index">>))
      ELSE write_iterations(gh, all_iterations, env)

\* GitHubSprintRepository.create, for a sprint without issues; gh is the
\* iteration list of the field on GitHub
create_sprint(gh, title, start_date, end_date, env) ==
  LET p == parse_sprint_dates(start_date, end_date) IN
  IF env = "no_project"
  THEN SprintFailed(gh, ValueErr(<<"No project ID provided and no projects found">>))
  ELSE IF env = "no_field"
  THEN SprintFailed(gh, ValueErr(<<"No iteration field found and unable to create one">>))
  ELSE IF ~p.ok
  THEN SprintFailed(gh, ValueErr(<<"Invalid date format">>))
  ELSE append_iteration(gh, title, p.start, p.end, env)

\* ------------------------------------------------------ sprint operations
MaxSprints == 2
NoSprReq == [op |-> "none"]
NoSprOut == [ok |-> FALSE, value |-> NoSprint, err |-> NoError, write |-> NoWrite]

SprintInit ==
  /\ ghIterations = <<>>
  /\ spc = "idle"
  /\ sprReq = NoSprReq
  /\ sprOut = NoSprOut
  /\ ghIterBefore = <<>>
  /\ sprints = 0

\* GitHubSprintRepository.create(CreateSprint(title, start_date, end_date))
CreateSprint(title, start_date, end_date, env) ==
  /\ sprints < MaxSprints
  /\ spc \in {"idle", "created"}
  /\ LET r == create_sprint(ghIterations, title, start_date, end_date, env) IN
       /\ ghIterations' = r.gh
       /\ sprOut' = [ok |-> r.ok, value |-> r.value, err |-> r.err, write |-> r.write]
  /\ spc' = "created"
  /\ sprReq' = [op |-> "create", title |-> title, start_date |-> start_date,
                end_date |-> end_date, env |-> env]
  /\ ghIterBefore' = ghIterations
  /\ sprints' = sprints + 1
  /\ UNCHANGED <<retryVars, toolVars, coerceVars, gqlVars, issueVars, milestoneVars, raceVars, assignVars, delayVars, msUpdateVars>>

\* a create that ends before it looks at the title or the dates is taken
\* with one title and one pair of dates
SprintNext ==
  sprints < MaxSprints
  /\ \E env \in (IF ghIterations = <<>> THEN SprintEnvs
                  ELSE SprintEnvs \ {"config_none", "iterations_none"}) :
       \E start_date \in (IF env \in {"no_project", "no_field"} THEN {Jan01} ELSE SprintDates),
          end_date \in (IF env \in {"no_project", "no_field"} THEN {Jan14} ELSE SprintDates) :
         \E title \in (IF env \in {"no_project", "no_field", "read_fails"}
                       THEN {<<"S", "1">>} ELSE SprintTitles) :
           CreateSprint(title, start_date, end_date, env)


\* ------------------------------------------------ concurrent sprint creates
\* create awaits the query for the existing iterations (line 184) and later
\* the mutation (line 313); two creates running on the same field can each be
\* suspended between the two
Creators == {"a", "b"}
RaceTitles == {<<"S", "1">>, <<"S", "2">>}
RaceDates == {Jan01, Jan14}
RaceReadEnvs == {"ok", "read_fails"}
RaceWriteEnvs == {"ok", "write_fails"}

NoRaceReq == [title |-> <<>>, start_date |-> <<>>, end_date |-> <<>>]

RaceInit ==
  /\ racePc = [p \in Creators |-> "idle"]
  /\ raceReq = [p \in Creators |-> NoRaceReq]
  /\ raceRead = [p \in Creators |-> <<>>]
  /\ raceOut = [p \in Creators |-> NoSprOut]

\* mutant of write_base: the list is built from the field as it is at the
\* time of the write
write_base_current(snapshot, current) == current

\* lines 184-221: the list handed to the mutation is built from the
\* iterations read before the write, not from the field as it is then
write_base(snapshot, current) == snapshot

\* create up to the answer of the query for the existing iterations
RaceRead(p, title, start_date, end_date, env) ==
  /\ racePc[p] = "idle"
  /\ raceReq' = [raceReq EXCEPT ![p] = [title |-> title, start_date |-> start_date,
                                        end_date |-> end_date]]
  /\ IF ~parse_sprint_dates(start_date, end_date).ok \/ env = "read_fails"
     THEN /\ racePc' = [racePc EXCEPT ![p] = "failed"]
          /\ raceOut' = [raceOut EXCEPT ![p] =
               LET r == create_sprint(ghIterations, title, start_date, end_date, "read_fails")
               IN  [ok |-> r.ok, value |-> r.value, err |-> r.err, write |-> r.write]]
          /\ UNCHANGED raceRead
     ELSE /\ racePc' = [racePc EXCEPT ![p] = "read"]
          /\ raceRead' = [raceRead EXCEPT ![p] = ghIterations]
          /\ UNCHANGED raceOut
  /\ UNCHANGED <<ghIterations, spc, sprReq, sprOut, ghIterBefore, sprints>>
  /\ UNCHANGED <<retryVars, toolVars, coerceVars, gqlVars, issueVars, milestoneVars, assignVars, delayVars, msUpdateVars>>

\* the rest of create: the list is built, checked and written
RaceWrite(p, env) ==
  /\ racePc[p] = "read"
  /\ LET q == parse_sprint_dates(raceReq[p].start_date, raceReq[p].end_date)
         r == append_iteration(write_base(raceRead[p], ghIterations), raceReq[p].title,
                               q.start, q.end, env)
     IN  /\ ghIterations' = IF r.ok THEN r.gh ELSE ghIterations
         /\ raceOut' = [raceOut EXCEPT ![p] =
                          [ok |-> r.ok, value |-> r.value, err |-> r.err, write |-> r.write]]
         /\ racePc' = [racePc EXCEPT ![p] = IF r.ok THEN "done" ELSE "failed"]
  /\ UNCHANGED <<raceReq, raceRead>>
  /\ UNCHANGED <<spc, sprReq, sprOut, ghIterBefore, sprints>>
  /\ UNCHANGED <<retryVars, toolVars, coerceVars, gqlVars, issueVars, milestoneVars, assignVars, delayVars, msUpdateVars>>

RaceNext ==
  \/ \E p \in Creators, title \in RaceTitles, start_date \in RaceDates,
        end_date \in RaceDates, env \in RaceReadEnvs :
       RaceRead(p, title, start_date, end_date, env)
  \/ \E p \in Creators, env \in RaceWriteEnvs : RaceWrite(p, env)


\* ------------------------------------------------- sprint issue assignment
AssignIds == {"7", "8"}
AssignLists == {<<>>, <<"7">>, <<"7", "8">>, <<"8", "7">>}

\* what the environment answers for one issue:
\*   added:       every call succeeds, the item is added to the project
\*   listed:      addProjectV2ItemById raises, the item is found in the list
\*   missing:     find_by_id returns None (get_issue raised)
\*   no_node:     the node id query returns no id
\*   no_item:     the item is neither added nor found in the list
\*   write_fails: the field update raises or returns no item
Fates == {"added", "listed", "missing", "no_node", "no_item", "write_fails"}

AssignError(issue_id, iteration_id, cause) ==
  MkError("Exception", FALSE, StatusNone, NoResponse, "absent",
          <<"Failed to assign issue", issue_id, "to iteration", iteration_id, cause>>)

\* lines 346-482: the body of the loop for one issue
assign_one(issue_id, fate, iteration_id) ==
  IF fate = "missing"
  THEN [outcome |-> "skipped", err |-> NoError]
  ELSE IF fate = "no_node"
  THEN [outcome |-> "raised",
        err |-> AssignError(issue_id, iteration_id, "not found in repository")]
  ELSE IF fate = "no_item"
  THEN [outcome |-> "raised",
        err |-> AssignError(issue_id, iteration_id, "Project item ID not found")]
  ELSE IF fate = "write_fails"
  THEN [outcome |-> "raised",
        err |-> AssignError(issue_id, iteration_id, "GraphQL operation")]
  ELSE [outcome |-> "assigned", err |-> NoError]

AssignResult(ok, err, items, skipped, last) ==
  [ok |-> ok, err |-> err, items |-> items, skipped |-> skipped, last |-> last]

\* _assign_issues_to_iteration from the i-th issue on; items is the iteration
\* of each project item, skipped the issues passed over so far
RECURSIVE assign_from(_, _, _, _, _, _)
assign_from(i, issue_ids, fates, iteration_id, items, skipped) ==
  IF i > Len(issue_ids)
  THEN AssignResult(TRUE, NoError, items, skipped, Len(issue_ids))
  ELSE LET one == assign_one(issue_ids[i], fates[issue_ids[i]], iteration_id) IN
       IF one.outcome = "raised"
       THEN AssignResult(FALSE, one.err, items, skipped, i)
       ELSE IF one.outcome = "skipped"
       THEN assign_from(i + 1, issue_ids, fates, iteration_id, items,
                        Append(skipped, issue_ids[i]))
       ELSE assign_from(i + 1, issue_ids, fates, iteration_id,
                        [items EXCEPT ![issue_ids[i]] = iteration_id], skipped)

assign_issues_to_iteration(iteration_id, issue_ids, fates, items) ==
  assign_from(1, issue_ids, fates, iteration_id, items, <<>>)

MaxAssigns == 2
AssignTitles == {<<"S", "1">>, <<"S", "2">>}
AssignEnvs == {"ok", "write_fails", "no_project"}
NoAsgReq == [op |-> "none"]
NoAsgOut == [ok |-> FALSE, err |-> NoError, skipped |-> <<>>, last |-> 0, wrote |-> FALSE]

AssignInit ==
  /\ ghItems = [i \in AssignIds |-> NoId]
  /\ asgReq = NoAsgReq
  /\ asgOut = NoAsgOut
  /\ asgBefore = <<>>
  /\ assigns = 0

\* GitHubSprintRepository.create(CreateSprint(title, dates, issues)): the
\* iteration is written first (line 313), then the issues are assigned
\* (lines 325-326)
CreateSprintWithIssues(title, issue_ids, fates, env) ==
  /\ assigns < MaxAssigns
  /\ \E r \in {create_sprint(ghIterations, title, Jan01, Jan14, env)} :
       \E a \in {IF r.ok /\ issue_ids # <<>>
                 THEN assign_issues_to_iteration(r.value.id, issue_ids, fates, ghItems)
                 ELSE AssignResult(r.ok, r.err, ghItems, <<>>, 0)} :
         /\ ghIterations' = r.gh
         /\ ghItems' = a.items
         /\ asgOut' = [ok |-> a.ok, err |-> a.err, skipped |-> a.skipped,
                       last |-> a.last, wrote |-> r.ok]
  /\ asgReq' = [op |-> "create", title |-> title, issues |-> issue_ids,
                fates |-> fates, env |-> env, sprint_id |-> NoId]
  /\ asgBefore' = ghIterations
  /\ assigns' = assigns + 1
  /\ UNCHANGED <<spc, sprReq, sprOut, ghIterBefore, sprints>>
  /\ UNCHANGED <<retryVars, toolVars, coerceVars, gqlVars, issueVars, milestoneVars, raceVars, delayVars, msUpdateVars>>

\* GitHubSprintRepository.add_issue(sprint_id, issue_id), lines 621-657
AddIssue(sprint_id, issue_id, fates, env) ==
  /\ assigns < MaxAssigns
  /\ \E a \in {IF env = "no_project"
               THEN AssignResult(FALSE, ValueErr(<<"No project ID found">>), ghItems, <<>>, 0)
               ELSE assign_issues_to_iteration(sprint_id, <<issue_id>>, fates, ghItems)} :
       /\ ghItems' = a.items
       /\ asgOut' = [ok |-> a.ok, err |-> a.err, skipped |-> a.skipped,
                     last |-> a.last, wrote |-> FALSE]
  /\ asgReq' = [op |-> "add_issue", title |-> <<>>, issues |-> <<issue_id>>,
                fates |-> fates, env |-> env, sprint_id |-> sprint_id]
  /\ asgBefore' = ghIterations
  /\ assigns' = assigns + 1
  /\ UNCHANGED <<ghIterations, spc, sprReq, sprOut, ghIterBefore, sprints>>
  /\ UNCHANGED <<retryVars, toolVars, coerceVars, gqlVars, issueVars, milestoneVars, raceVars, delayVars, msUpdateVars>>

\* the fate of an issue that is not in the request is of no consequence and
\* is taken as added
AssignNext ==
  \/ \E title \in AssignTitles, issue_ids \in AssignLists, env \in AssignEnvs :
       \E fates \in [AssignIds -> IF env = "ok" THEN Fates ELSE {"added"}] :
         /\ \A i \in AssignIds :
              (\A k \in 1..Len(issue_ids) : issue_ids[k] # i) => fates[i] = "added"
         /\ CreateSprintWithIssues(title, issue_ids, fates, env)
  \/ \E issue_id \in AssignIds, fate \in Fates, env \in {"ok", "no_project"} :
       \E sprint_id \in {it.id : it \in {ghIterations[k] : k \in 1..Len(ghIterations)}} :
         AddIssue(sprint_id, issue_id,
                  [i \in AssignIds |-> IF i = issue_id /\ env = "ok" THEN fate ELSE "added"], env)


\* ------------------------------------------------------------ retry delay
\* a header is absent or holds a string: a sequence of characters
Header(s) == [present |-> TRUE, value |-> s]
NoHeader == [present |-> FALSE, value |-> <<>>]

\* time.time() in seconds, and the header values tried
ClockValues == {100, 104, 160}
DelayResetValues ==
  {NoHeader, Header(<<"9", "5">>), Header(<<"1", "0", "5">>), Header(<<"1", "5", "0">>),
   Header(<<"2", "0", "0">>), Header(<<"s", "o", "o", "n">>)}
RetryAfterValues ==
  {NoHeader, Header(<<"0">>), Header(<<"3">>), Header(<<"3", "0">>), Header(<<"9", "0">>),
   Header(<<"-", "5">>), Header(<<"W", "e", "d">>)}

\* int(s) on a header string: an optional sign and digits, ValueError otherwise
py_int(s) ==
  IF isdigit(s) THEN [ok |-> TRUE, value |-> int_of(s)]
  ELSE IF Len(s) > 1 /\ s[1] \in {"-", "+"} /\ isdigit(Tail(s))
  THEN [ok |-> TRUE, value |-> IF s[1] = "-" THEN 0 - int_of(Tail(s)) ELSE int_of(Tail(s))]
  ELSE [ok |-> FALSE, value |-> 0]

Max(a, b) == IF a >= b THEN a ELSE b
Min(a, b) == IF a <= b THEN a ELSE b

\* lines 73-79: the delay after the x-ratelimit-reset header was looked at
reset_delay(reset, current_time) ==
  IF reset.present /\ py_int(reset.value).value > current_time
  THEN (py_int(reset.value).value - current_time) * 1000
  ELSE 1000

\* GitHubErrorHandler.calculate_retry_delay(headers)
calculate_retry_delay(reset, retry_after, current_time) ==
  IF reset.present /\ ~py_int(reset.value).ok
  THEN [raised |-> TRUE, value |-> 0]
  ELSE IF retry_after.present /\ ~py_int(retry_after.value).ok
  THEN [raised |-> TRUE, value |-> 0]
  ELSE IF retry_after.present
  THEN [raised |-> FALSE,
        value |-> Min(Max(reset_delay(reset, current_time),
                          py_int(retry_after.value).value * 1000), 60000)]
  ELSE [raised |-> FALSE, value |-> Min(reset_delay(reset, current_time), 60000)]

NoDelayIn == [op |-> "none", reset |-> NoHeader, retry_after |-> NoHeader, now |-> 0]
NoDelayOut == [raised |-> FALSE, value |-> 0]

DelayInit ==
  /\ delayIn = NoDelayIn
  /\ delayOut = NoDelayOut

CalculateRetryDelay(reset, retry_after, now) ==
  /\ delayIn' = [op |-> "calculate_retry_delay", reset |-> reset,
                 retry_after |-> retry_after, now |-> now]
  /\ delayOut' = calculate_retry_delay(reset, retry_after, now)
  /\ UNCHANGED <<retryVars, toolVars, coerceVars, gqlVars, issueVars, milestoneVars, sprintVars, raceVars, assignVars, msUpdateVars>>

DelayNext ==
  \E reset \in DelayResetValues, retry_after \in RetryAfterValues, now \in ClockValues :
    CalculateRetryDelay(reset, retry_after, now)


\* ------------------------------------------------- update_milestone tool
\* the arguments of UpdateMilestoneArgs a caller sends; Absent is a field
\* that was not supplied. The requests carry no due_date.
MsTitleArgs == {Absent, "M3"}
MsStateArgs == {Absent, "open", "closed"}
MsUpdateIds == {"", "1", "2", "9"}

\* execute_update_milestone: the dict handed to the service has the keys of
\* UpdateMilestoneArgs
update_dict(milestone_id, title, state) ==
  [milestone_id |-> milestone_id, title |-> title, state |-> state]

\* dict.get(key, default)
dict_get(d, key, default) ==
  IF key \in DOMAIN d /\ d[key] # Absent THEN d[key] ELSE default

\* line 68: state='open' if data.get('status') != ResourceStatus.CLOSED
\* else 'closed'
edited_state(m, data) ==
  IF dict_get(data, "status", Absent) # CLOSED THEN "open" ELSE "closed"

\* lines 64-69: milestone.edit(title = ..., state = ...)
edit_milestone(m, data) ==
  [title |-> dict_get(data, "title", m.title), state |-> edited_state(m, data)]

MuResult(gh, ok, value, err) == [gh |-> gh, ok |-> ok, value |-> value, err |-> err]
NoMs == [title |-> "", state |-> "open"]

\* GitHubMilestoneRepository.update: get_milestone and edit, neither wrapped
\* in with_retry or handle_error
repo_update_milestone(gh, id, data, net) ==
  IF ~IsNumeric(id)
  THEN MuResult(gh, FALSE, NoMs, ValueErr(<<"invalid literal for int()">>))
  ELSE IF net = "error" THEN MuResult(gh, FALSE, NoMs, GithubException)
  ELSE IF IdNumber(id) \notin DOMAIN gh
  THEN MuResult(gh, FALSE, NoMs, UnknownObjectException)
  ELSE LET m == edit_milestone(gh[IdNumber(id)], data) IN
       MuResult([gh EXCEPT ![IdNumber(id)] = m], TRUE, m, NoError)

\* ProjectManagementService.update_milestone
service_update_milestone(gh, data, net) ==
  IF dict_get(data, "milestone_id", "") = "" /\ dict_get(data, "id", "") = ""
  THEN MuResult(gh, FALSE, NoMs, ValueErr(<<"Milestone ID is required">>))
  ELSE repo_update_milestone(gh, dict_get(data, "milestone_id", ""), data, net)

MaxMsUpdates == 2
NoMuReq == [op |-> "none", data |-> update_dict("", Absent, Absent), net |-> "ok"]
NoMuOut == [ok |-> FALSE, value |-> NoMs, err |-> NoError]

\* the repository holds milestone 1, open, and milestone 2, which was closed
\* on GitHub
MsUpdateInit ==
  /\ ghMs = (1 :> [title |-> "M1", state |-> "open"]) @@
            (2 :> [title |-> "M2", state |-> "closed"])
  /\ muReq = NoMuReq
  /\ muOut = NoMuOut
  /\ ghMsBefore = ghMs
  /\ msUpdates = 0

\* the update_milestone tool: execute_update_milestone(service, args)
UpdateMilestone(milestone_id, title, state, net) ==
  /\ msUpdates < MaxMsUpdates
  /\ LET r == service_update_milestone(ghMs, update_dict(milestone_id, title, state), net) IN
       /\ ghMs' = r.gh
       /\ muOut' = [ok |-> r.ok, value |-> r.value, err |-> r.err]
  /\ muReq' = [op |-> "update_milestone", data |-> update_dict(milestone_id, title, state),
               net |-> net]
  /\ ghMsBefore' = ghMs
  /\ msUpdates' = msUpdates + 1
  /\ UNCHANGED <<retryVars, toolVars, coerceVars, gqlVars, issueVars, milestoneVars, sprintVars, raceVars, assignVars, delayVars>>

MsUpdateNext ==
  \E milestone_id \in MsUpdateIds, title \in MsTitleArgs, state \in MsStateArgs,
     net \in MilestoneNet :
    UpdateMilestone(milestone_id, title, state, net)

\* ------------------------------------------------------- specifications

Init == RetryInit /\ ToolInit /\ CoerceInit /\ GraphqlInit /\ IssueInit /\ MilestoneInit
        /\ SprintInit
        /\ RaceInit
        /\ AssignInit
        /\ DelayInit
        /\ MsUpdateInit

SpecRetry == Init /\ [][RetryNext]_vars

\* the event loop runs a started call to its end
SpecRetryFair == SpecRetry /\ WF_vars(RetryNext)

SpecTool == Init /\ [][ToolNext]_vars

SpecCoerce == Init /\ [][CoerceNext]_vars

SpecGraphql == Init /\ [][GraphqlNext]_vars

SpecIssueCreate == Init /\ [][IssueCreateNext]_vars

SpecIssueUpdate == Init /\ [][IssueUpdateNext]_vars
SpecMilestone == Init /\ [][MilestoneNext]_vars
SpecSprint == Init /\ [][SprintNext]_vars
SpecSprintRace == Init /\ [][RaceNext]_vars
SpecSprintAssign == Init /\ [][AssignNext]_vars
SpecDelay == Init /\ [][DelayNext]_vars
SpecMilestoneUpdate == Init /\ [][MsUpdateNext]_vars

\* ------------------------------------------------------------------ claims
WithRetryRun == site.wrap \in {"with_retry", "graphql"}
CallEnded == rpc \in {"returned", "raised"}
FailedWith(i, status) ==
  /\ i <= Len(history)
  /\ ~history[i].ok
  /\ history[i].err.hasStatus
  /\ history[i].err.status = status

\* C1: an operation that fails twice with status 503 and then succeeds makes
\* with_retry return after exactly two sleeps and three invocations (it is
\* never raised while only 503 failures have been seen on the first two
\* attempts); an operation that fails with status 404 makes with_retry raise
\* on the first failure, with no sleep and no second invocation.
C1_RetryPolicy ==
  WithRetryRun =>
    /\ (FailedWith(1, 503) /\ Len(history) = 1) => rpc # "raised"
    /\ (FailedWith(1, 503) /\ FailedWith(2, 503) /\ Len(history) = 2) => rpc # "raised"
    /\ (FailedWith(1, 503) /\ FailedWith(2, 503) /\ Len(history) = 3 /\ history[3].ok) =>
          rpc = "returned" /\ Len(sleeps) = 2 /\ invocations = 3
    /\ FailedWith(1, 404) =>
          rpc = "raised" /\ Len(sleeps) = 0 /\ invocations = 1 /\ Len(history) = 1

C1_Witness ==
  /\ site.wrap = "with_retry"
  /\ rpc = "returned"
  /\ FailedWith(1, 503) /\ FailedWith(2, 503)
  /\ Len(history) = 3 /\ history[3].ok
  /\ Len(sleeps) = 2

\* C2: for every tool with a handler and every failure raised under it,
\* execute_tool returns an error envelope with code VALIDATION_ERROR or
\* INTERNAL_ERROR and a message, and does not raise.
C2_NoRawException ==
  (tpc = "executed" /\ req.tool \in HandlerNames /\ svcOutcome # "ok") =>
    /\ response.kind = "error"
    /\ response.code \in {VALIDATION_ERROR, INTERNAL_ERROR}
    /\ response.msg # <<>>

\* C3: a tool call whose tool name has no handler is answered with an error
\* envelope with code RESOURCE_NOT_FOUND whose message contains the tool
\* name; no handler runs and no call to the service (to GitHub) is made.
C3_UnknownTool ==
  (tpc \in {"executed", "called"} /\ req.tool \notin HandlerNames) =>
    /\ response.kind = "error"
    /\ response.code = RESOURCE_NOT_FOUND
    /\ \E i \in 1..Len(response.msg) : response.msg[i] = req.tool
    /\ handlerRan = "none"
    /\ serviceCalls = 0

\* C4: every outbound call of a repository method that fails with a
\* retryable failure (status 429, 500, 502, 503, 504, or a network failure)
\* is attempted again until it succeeds or 3 attempts have been made: a call
\* ends after fewer than 3 attempts only with a success or a failure that is
\* not retryable.
C4_EveryCallRetried ==
  (CallEnded /\ site \in CallSites) =>
    LET last == history[Len(history)] IN
      \/ last.ok
      \/ Len(history) = 3
      \/ ~(last.http \in {429, 500, 502, 503, 504} \/ last.network)

C6_RetryableIff ==
  rpc = "classified" =>
    (clsRetry <=>
       \/ clsIn.hasStatus /\ clsIn.status \in {429, 500, 502, 503, 504}
       \/ clsIn.msg \in NetworkMessages)

\* C7: with_retry invokes the operation at most 3 times and sleeps at most
\* 2 times, never sleeps after the last attempt (it ends with one sleep
\* fewer than invocations), and every run ends: it returns the result of an
\* invocation that succeeded, or it raises.
C7_Bounds ==
  WithRetryRun =>
    /\ invocations <= 3
    /\ Len(sleeps) <= 2
    /\ \A i \in 1..Len(sleeps) : sleeps[i].after < 2
    /\ CallEnded => Len(sleeps) = invocations - 1
    /\ rpc = "returned" => history[Len(history)].ok
    /\ rpc = "raised" => raised # NoError /\ ~history[Len(history)].ok

C7_BoundedRetry ==
  /\ []C7_Bounds
  /\ (rpc \in {"calling", "sleeping"}) ~> CallEnded

C7_Witness ==
  /\ site.wrap = "with_retry"
  /\ rpc = "raised"
  /\ invocations = 3
  /\ Len(sleeps) = 2

\* C8: the sleep after the failed attempt with index k is 1000 * 2^k ms:
\* 1000 ms after the first failure and 2000 ms after the second, whatever
\* rate-limit headers the error carries.
C8_BackoffDelays ==
  \A i \in 1..Len(sleeps) :
    /\ sleeps[i].after = i - 1
    /\ sleeps[i].ms = IF i = 1 THEN 1000 ELSE 2000

C8_Witness ==
  /\ Len(sleeps) = 2
  /\ history[1].err.resp = RateLimitHeaders
  /\ history[2].err.status = 429

\* C9: in call_tool a handler runs only with arguments that passed schema
\* validation: when the arguments of a request fail validation, no handler
\* runs and no call to the service (to GitHub) is made.
C9_ValidatedOnly ==
  tpc = "called" =>
    /\ valOut.status # "ok" => handlerRan = "none" /\ serviceCalls = 0
    /\ handlerRan # "none" =>
          /\ handlerArgs.status = "ok"
          /\ handlerArgs.tool = req.tool
          /\ \A f \in NonEmptyFields(req.tool) :
                f \in DOMAIN handlerArgs.fields /\ handlerArgs.fields[f] # ""
          /\ \A f \in PresentFields(req.tool) : f \in DOMAIN handlerArgs.fields

C9_Witness ==
  /\ tpc = "called"
  /\ req.tool \in HandlerNames
  /\ valOut.status = "raised"
  /\ handlerRan = "none"
  /\ response.kind = "raised"

\* C10: for every mapping the tool's schema accepts, validate returns the
\* same typed arguments whether the mapping is supplied as a plain mapping,
\* a JSON string, a Python-literal string or a typed object.
C10_SameTypedArgs ==
  (tpc = "validated" /\ SchemaAccepts(req.tool, req.map)) =>
    \A f \in {"mapping", "json", "pyliteral", "typed"} :
      valLog[f].status # "none" =>
        /\ valLog[f].status = "ok"
        /\ valLog[f].tool = req.tool
        /\ valLog[f].fields = req.map

\* C11: for create_project_field, whatever supported shape the "options"
\* argument has (a JSON array, a Python-literal array, a comma-separated
\* string, an "X or Y" string, a single bare string, null, or a list), the
\* coercion step does not raise and leaves "options" as None or as a list
\* whose elements are all {name} records.
C11_OptionsCoerced ==
  (opc = "coerced" /\ optIn.type \in {"str", "list", "none"}) =>
    /\ ~optRaised
    /\ \/ optOut.kind = "none"
       \/ /\ optOut.kind = "list"
          /\ \A i \in 1..Len(optOut.elems) : optOut.elems[i].kind = "record"

\* C12: for a 200 GraphQL response that contains an errors array, execute
\* returns the response data exactly when the data has at least one non-null
\* top-level key and every error is a "Could not resolve to an
\* Organization/User" error; in every other case it raises an error whose
\* message holds all the error messages.
C12_PartialData ==
  (gpc = "executed" /\ gqlReply.ok /\ gqlReply.body.hasErrors) =>
    LET b == gqlReply.body
        nonNull == /\ b.data.kind = "dict"
                   /\ \E k \in DOMAIN b.data.fields : ~b.data.fields[k].isNull
        noFatal == \A i \in 1..Len(b.errors) : b.errors[i] \in {MsgNoOrganization, MsgNoUser}
    IN IF nonNull /\ noFatal
       THEN gqlOut.ok /\ gqlOut.data = b.data
       ELSE /\ ~gqlOut.ok
            /\ \A i \in 1..Len(b.errors) : InMessage(gqlOut.err, error_messages(b.errors)[i])

\* the reply GitHub gives to the query for field k when the login resolves
Resolves(reply, k) ==
  /\ reply.ok
  /\ ~reply.body.hasErrors
  /\ reply.body.data.kind = "dict"
  /\ DOMAIN reply.body.data.fields = {k}
  /\ ~reply.body.data.fields[k].isNull

\* the reply GitHub gives when the login does not resolve as k: the field is
\* null (or there is no data) and the errors array holds the not-found error
DoesNotResolve(reply, k) ==
  /\ reply.ok
  /\ reply.body.hasErrors
  /\ reply.body.errors = <<IF k = "user" THEN MsgNoUser ELSE MsgNoOrganization>>
  /\ \/ reply.body.data.kind \in {"absent", "null"}
     \/ /\ reply.body.data.kind = "dict"
        /\ DOMAIN reply.body.data.fields = {k}
        /\ reply.body.data.fields[k].isNull

\* C13: for a login that resolves as a user but not as an organization, or
\* as an organization but not as a user, find_by_owner does not raise and
\* returns the projects of the branch that resolved.
C13_OwnerResolution ==
  gpc = "found" =>
    /\ (Resolves(fboUser, "user") /\ DoesNotResolve(fboOrg, "organization")) =>
          /\ ~fboOut.raised
          /\ fboOut.projects = fboUser.body.data.fields["user"].nodes
    /\ (DoesNotResolve(fboUser, "user") /\ Resolves(fboOrg, "organization")) =>
          /\ ~fboOut.raised
          /\ fboOut.projects = fboOrg.body.data.fields["organization"].nodes

C13_Witness ==
  /\ gpc = "found"
  /\ DoesNotResolve(fboUser, "user")
  /\ fboUser.body.data.kind = "dict"
  /\ Resolves(fboOrg, "organization")
  /\ ~fboOut.raised
  /\ fboOut.projects = <<"OrgProject">>

\* C14: round trip: after the issue repository's create succeeded for title T
\* and description D, find_by_id on the returned id (the fetch reaching
\* GitHub) returns an Issue with title T, description D and status ACTIVE,
\* whether the SDK call or the raw HTTP fallback created the issue.
C14_RoundTrip ==
  (/\ ipc = "found" /\ updates = 0
   /\ issCreated.ok
   /\ issReq.id = issCreated.id
   /\ issReq.fetch = "ok") =>
     /\ issOut.ok
     /\ issOut.value # NoneIssue
     /\ issOut.value.id = issCreated.id
     /\ issOut.value.title = issCreated.data.title
     /\ issOut.value.description = issCreated.data.description
     /\ issOut.value.status = ACTIVE

C14_Witness ==
  /\ ipc = "found" /\ updates = 0
  /\ issCreated.ok /\ issCreated.fallback
  /\ issReq.id = issCreated.id /\ issReq.fetch = "ok"
  /\ issOut.value.title = "T2"
  /\ issOut.value.description = ""
  /\ issOut.value.status = ACTIVE

\* the update reached the issue: it exists and GitHub answered the fetch
PrimaryUpdated ==
  /\ ipc = "updated"
  /\ issReq.fetch = "ok"
  /\ IsNumeric(issReq.args.issue_id)
  /\ IdNumber(issReq.args.issue_id) \in 1..Len(ghBefore)

\* C15: the update_issue tool called with status in_progress, in-progress or
\* "in progress" leaves the issue open on GitHub, and the issue carries a
\* label named in-progress afterwards.
C15_InProgressLabel ==
  (PrimaryUpdated /\ issReq.args.status \in {"in_progress", "in-progress", "in progress"}) =>
    LET g == ghIssues[IdNumber(issReq.args.issue_id)] IN
    /\ g.state = "open"
    /\ \E i \in 1..Len(g.labels) : LowerLabel(g.labels[i]) = "in-progress"

\* C16: the service's update_issue returns the updated issue whenever the
\* primary issue update succeeded, whatever the secondary attempt to set the
\* project's Status field did.
C16_SecondaryIgnored ==
  PrimaryUpdated =>
    /\ issOut.ok
    /\ issOut.value = convert_issue(IdNumber(issReq.args.issue_id),
                                    ghIssues[IdNumber(issReq.args.issue_id)])

\* the error classes of domain/errors.py
TaxonomyKinds ==
  {"ValidationError", "ResourceNotFoundError", "UnauthorizedError", "RateLimitError",
   "ConfigurationError", "IntegrationError", "GitHubAPIError", "MCPProtocolError"}

\* C17: when the outbound call of a repository method fails terminally, the
\* method raises one of the taxonomy kinds; it does not return a normal
\* result (None, an empty list, false) in place of the failure.
C17_FailureRaises ==
  (ipc = "found" /\ issReq.fetch = "error") =>
    /\ ~issOut.ok
    /\ issOut.err.cls \in TaxonomyKinds

\* a due date of one of the forms the statement lists, naming a calendar day:
\* YYYY, YYYY-MM-DD, YYYY/MM/DD, MM/DD/YYYY, or YYYY-MM-DD followed by a
\* time of day with Z or a UTC offset
ListedDueDate(s) ==
  \/ Len(s) = 4 /\ isdigit(s) /\ int_of(s) \in 1..9999
  \/ Len(s) = 10 /\ \E i \in 1..Len(DateFormats) : strptime(s, DateFormats[i]) # NoDate
  \/ /\ Len(s) > 10
     /\ strptime(Slice10(s), "%Y-%m-%d") # NoDate
     /\ SubSeq(s, 11, Len(s)) \in
          {<<"T", "1", "0", ":", "0", "0", ":", "0", "0", "Z">>,
           <<"T", "1", "0", ":", "0", "0", ":", "0", "0", "+", "0", "0", ":", "0", "0">>}

\* C18: milestone creation turns every due date of a listed form into a
\* concrete date, and for every other due-date text it raises the error
\* that describes the expected format and creates no milestone.
C18_DueDateParsed ==
  (msReq.op = "create" /\ msReq.due_date # <<>>) =>
    IF ListedDueDate(msReq.due_date)
    THEN msReq.net = "ok" =>
           /\ msOut.ok
           /\ msOut.value.due_on # NoDate
           /\ ghMilestones = {msOut.value}
    ELSE /\ ~msOut.ok
         /\ msOut.err.cls = "ValueError"
         /\ msOut.err.msg[1] = "Invalid due_date format"
         /\ ghMilestones = {}

\* C19: when delete_milestone is called twice on the same id and the first
\* call succeeds, the second call (answered by GitHub) ends in
\* ResourceNotFoundError and in no other kind of failure.
C19_DeleteTwice ==
  (/\ Len(msLog) = 2
   /\ msLog[1].id = msLog[2].id
   /\ msLog[1].response.kind = "success"
   /\ msLog[2].net = "ok") =>
     /\ msLog[2].response.kind = "raised"
     /\ msLog[2].response.exc = "ResourceNotFoundError"

\* C20: a sprint creation that reaches the write on a field holding N
\* iterations sends an iteration list of N+1 entries: the N existing
\* iterations in order, none with an id, then the new iteration, whose
\* duration is (end_date - start_date).days + 1.
C20_SprintAppended ==
  (spc = "created" /\ sprOut.write # NoWrite) =>
    LET N == Len(ghIterBefore)
        its == sprOut.write.iterations
        p == parse_sprint_dates(sprReq.start_date, sprReq.end_date)
    IN  /\ Len(its) = N + 1
        /\ \A i \in 1..N :
             its[i] = Iteration(NoId, ghIterBefore[i].title, ghIterBefore[i].startDate,
                                ghIterBefore[i].duration)
        /\ its[N + 1].id = NoId
        /\ its[N + 1].title = sprReq.title
        /\ its[N + 1].duration = toordinal(p.end) - toordinal(p.start) + 1

C20_Witness ==
  /\ spc = "created" /\ sprOut.ok
  /\ Len(ghIterBefore) = 1 /\ ghIterBefore[1].id = 1 /\ ghIterBefore[1].duration = 1
  /\ sprReq.start_date = Jan01 /\ sprReq.end_date = Jan14
  /\ Len(sprOut.write.iterations) = 2
  /\ sprOut.write.iterations[1].id = NoId
  /\ sprOut.write.iterations[2].duration = 14
  /\ Len(ghIterations) = 2

\* C21: a create writes the list it read plus its own iteration, whatever
\* was written in between: the field always holds exactly the payload of one
\* completed write, so of two creates that both read before either wrote,
\* the one that wrote first is missing from the field.
C21_LastWriteWins ==
  /\ \A p \in Creators :
       racePc[p] = "done" =>
         /\ Len(raceOut[p].write.iterations) = Len(raceRead[p]) + 1
         /\ raceOut[p].write.iterations[Len(raceRead[p]) + 1].title = raceReq[p].title
  /\ \/ ghIterations = <<>> /\ \A p \in Creators : racePc[p] # "done"
     \/ \E p \in Creators :
          /\ racePc[p] = "done"
          /\ ghIterations = stored_iterations(raceOut[p].write.iterations,
                                              Len(raceOut[p].write.iterations))

C21_Witness ==
  /\ \A p \in Creators : racePc[p] = "done" /\ raceOut[p].ok /\ raceRead[p] = <<>>
  /\ raceReq["a"].title = <<"S", "1">> /\ raceReq["b"].title = <<"S", "2">>
  /\ Len(ghIterations) = 1
  /\ ghIterations[1].title = <<"S", "2">>

\* C22: during sprint issue assignment, the first issue that cannot be
\* assigned (not found, no node id, no project item, or a failed field
\* write) makes the operation raise with a message naming that issue; no
\* issue is skipped silently and none is processed after a failure.
C22_FirstFailureRaises ==
  (asgReq.op # "none" /\ asgReq.env = "ok") =>
    LET bad == {k \in 1..Len(asgReq.issues) :
                  asgReq.fates[asgReq.issues[k]] \notin {"added", "listed"}}
    IN  IF bad = {}
        THEN asgOut.ok
        ELSE LET first == CHOOSE k \in bad : \A j \in bad : k <= j IN
             /\ ~asgOut.ok
             /\ asgOut.err.msg[2] = asgReq.issues[first]
             /\ asgOut.last = first
             /\ asgOut.skipped = <<>>

\* C30: whenever the sprint repository's create raises, a failure while
\* assigning issues included, the iteration configuration of the field on
\* GitHub is the same as before the call.
C30_CreateAllOrNothing ==
  (asgReq.op = "create" /\ ~asgOut.ok) => ghIterations = asgBefore

\* C23: retry_delay(headers) always returns a value between 1000 and 60000
\* milliseconds; when x-ratelimit-reset lies in the future the value is
\* exactly the time until that reset, capped at 60000, and retry-after
\* determines the value only when x-ratelimit-reset is absent or not in the
\* future.
ResetInFuture ==
  delayIn.reset.present /\ py_int(delayIn.reset.value).ok
  /\ py_int(delayIn.reset.value).value > delayIn.now

C23_RetryDelay ==
  delayIn.op # "none" =>
    /\ ~delayOut.raised
    /\ delayOut.value \in 1000..60000
    /\ ResetInFuture =>
         delayOut.value = Min((py_int(delayIn.reset.value).value - delayIn.now) * 1000, 60000)

\* the error of the last SDK invocation of the create just made, and whether
\* it is an assertion failure or a non-retryable error
LastSdkError == issReq.run[Len(issReq.run)].err
SdkEndedForFallback ==
  /\ ~issReq.run[Len(issReq.run)].ok
  /\ (LastSdkError.cls = "AssertionError" \/ ~is_retryable_error(LastSdkError))

\* C24: the issue repository's create sends the fallback POST exactly when
\* the SDK path ended in an assertion failure or a non-retryable error; when
\* it failed with a retryable error that used up the retry budget, no
\* fallback POST is sent and the error is raised.
C24_FallbackExactly ==
  (ipc = "created" /\ issReq.data.title # "") =>
    /\ issOut.fallback = SdkEndedForFallback
    /\ (~issReq.run[Len(issReq.run)].ok /\ ~SdkEndedForFallback) =>
         (~issOut.fallback /\ ~issOut.ok)

\* C25: a single call to the issue repository's create makes GitHub create
\* at most one issue, for every outcome of the SDK path, an SDK call that
\* GitHub accepted but that then failed on the client side included.
C25_AtMostOneIssue ==
  ipc = "created" => Len(ghIssues) <= Len(ghBefore) + 1

\* C26: every tool name the registry lists has a handler in the dispatcher:
\* for every registered tool, execute_tool invokes a handler and never
\* answers with the "Tool not found" RESOURCE_NOT_FOUND envelope.
C26_RegisteredHasHandler ==
  (tpc = "executed" /\ req.tool \in RegistryNames) =>
    /\ handlerRan = req.tool
    /\ ~(response.kind = "error" /\ response.code = RESOURCE_NOT_FOUND)

\* the labels of the updated issue before and after the update, as sets
LabelSet(s) == {s[i] : i \in 1..Len(s)}
LabelsBefore == LabelSet(ghBefore[IdNumber(issReq.args.issue_id)].labels)
LabelsAfter == LabelSet(ghIssues[IdNumber(issReq.args.issue_id)].labels)

\* C27: the update_issue tool called with status "in_progress" and no labels
\* argument keeps every label the issue had: the label set afterwards is the
\* previous label set plus in-progress.
C27_KeepsLabels ==
  (PrimaryUpdated /\ issReq.args.status = "in_progress" /\ ~issReq.args.labels.given) =>
    LabelsAfter = LabelsBefore \cup {"in-progress"}

\* C28: an issue update whose requested status is "open" or "closed" never
\* adds the in-progress label: the labels of the issue are unchanged unless
\* the caller passed a labels argument.
C28_NoLabelAdded ==
  (PrimaryUpdated /\ issReq.args.status \in {"open", "closed"} /\ ~issReq.args.labels.given) =>
    /\ ghIssues[IdNumber(issReq.args.issue_id)].labels
         = ghBefore[IdNumber(issReq.args.issue_id)].labels
    /\ ("in-progress" \in LabelsAfter) = ("in-progress" \in LabelsBefore)

\* the update reached the milestone: it exists and GitHub answered
MilestoneUpdated ==
  /\ muReq.op = "update_milestone"
  /\ muReq.net = "ok"
  /\ muReq.data.milestone_id \in {"1", "2"}

\* C29: update_milestone changes only the fields the caller supplied: an
\* update that does not ask for a state change leaves a closed milestone
\* closed, and an update that passes state "closed" closes the milestone.
C29_OnlySuppliedFields ==
  MilestoneUpdated =>
    LET n == IdNumber(muReq.data.milestone_id) IN
    /\ muReq.data.title = Absent => ghMs[n].title = ghMsBefore[n].title
    /\ muReq.data.state = Absent => ghMs[n].state = ghMsBefore[n].state
    /\ muReq.data.state = "closed" => ghMs[n].state = "closed"
    /\ \A k \in DOMAIN ghMs : k # n => ghMs[k] = ghMsBefore[k]

====
